---- MODULE Spec2Model ----
(***************************************************************************)
(* Model of the turntable controller of msu_anechoic                       *)
(* (src/msu_anechoic/turn_table.py, _turn_table_elevation_regime.py).      *)
(*                                                                         *)
(* Units.  Every angle is an integer number of 0.0001 degree, so that the  *)
(* three precisions of the program are all representable: caller-supplied  *)
(* floats (modelled to 4 decimals), command frames ("%.3f", multiples of   *)
(* 10) and telemetry frames ("%.2f", multiples of 100).  Times are whole   *)
(* seconds of time.monotonic().                                            *)
(*                                                                         *)
(* Python's None is the empty tuple; an optional value x is <<x>>.         *)
(* A Python call that may raise yields an outcome record                   *)
(* [exc |-> name of the exception or "none", val |-> the returned value].  *)
(***************************************************************************)
EXTENDS Integers, Sequences, FiniteSets, TLC

None == <<>>
Some(x) == <<x>>

Ok(v) == [exc |-> "none", val |-> v]
Raise(e) == [exc |-> e, val |-> None]

Abs(x) == IF x < 0 THEN -x ELSE x

(* ---------------------------------------------------------------------- *)
(* Program constants (0.0001 degree; seconds)                              *)
(* ---------------------------------------------------------------------- *)
\* Fault variant of ALLOWABLE_DISCREPANCY_DEG: a tolerance that any reading meets.
ALLOWABLE_DISCREPANCY_DEG_loose == 1100 * 3000
\* Fault variant of ALLOWABLE_DISCREPANCY_DEG: 0.011 for 0.11, a margin
\* tighter than the tolerance at which the firmware stops driving.
ALLOWABLE_DISCREPANCY_DEG_tight == 11 * 10
ALLOWABLE_DISCREPANCY_DEG == 1100
ABSOLUTE_AZIMUTH_BOUNDS == <<-1800000, 1800000>>
ABSOLUTE_ELEVATION_BOUNDS == <<-900000, 450000>>
REGIME_ELEVATION_BOUNDS == <<-295000, 295000>>
DEAD_TIME == 1000
\* Default repetition counts of the command writers.
MOVE_REPS == 3
SET_REPS == 3
STOP_REPEAT == 5
EMERGENCY_REPS == 3
\* The tolerance hardcoded into the firmware (0.10 degree): the firmware stops
\* driving an axis once it is this close to the commanded target.
FIRMWARE_TOLERANCE == 1000

(* ---------------------------------------------------------------------- *)
(* Bounds of the model                                                     *)
(* ---------------------------------------------------------------------- *)
\* time.monotonic() advances in steps of TickSeconds up to MaxTime.
MaxTime == 2000
TickSeconds == 1000
\* Public operations called, and link faults (a command lost in all its
\* repetitions, a serial read that raises), in one run.
MaxCalls == 4
MaxFaults == 1
\* What the caller asks for (0.0001 degree).
MoveAzimuths == {0, 100000, 2000000}
MoveElevations == {200000, 400000, 500000, -600004}
SetArguments == {<<0, 0>>, <<100000, 0>>, <<0, 4>>}
EmergencyTargets == {<<0, 0>>, <<2000000, 500004>>}
NeutralElevations == {0, 80000}
\* Raw (azimuth, elevation) counters of the firmware at power-on.
PowerOnPositions == {<<-300, -300>>}

(* ---------------------------------------------------------------------- *)
(* Number formatting                                                       *)
(* ---------------------------------------------------------------------- *)
\* x rounded to the nearest multiple of q, ties to the even multiple.
RoundTo(x, q) ==
    LET lo == (x \div q) * q
        r == x - lo
    IN  IF 2 * r < q THEN lo
        ELSE IF 2 * r > q THEN lo + q
        ELSE IF (x \div q) % 2 = 0 THEN lo ELSE lo + q

\* f"{x:.3f}" as it is read back by the receiver.
Format3(x) == RoundTo(x, 10)
\* The firmware's "%.2f", as float() reads it back.
Format2(x) == RoundTo(x, 100)

AzEl(az, el) == [azimuth |-> az, elevation |-> el]

(* ---------------------------------------------------------------------- *)
(* Elevation regime catalog                                                *)
(* ---------------------------------------------------------------------- *)
\* Fault variant of TurnTableElevationRegime: windows of 12 degrees, which do
\* not overlap.
TurnTableElevationRegime_narrow(center) ==
    [center_angle |-> center, allowable_offset |-> 120000, waypoint_offset |-> 130000]

TurnTableElevationRegime(center) ==
    [center_angle |-> center, allowable_offset |-> 290000, waypoint_offset |-> 130000]

\* Fault variant of elevation_regimes: the fifth centre mistyped (26 for 25).
elevation_regimes_mistyped ==
    << TurnTableElevationRegime(-750000),
       TurnTableElevationRegime(-500000),
       TurnTableElevationRegime(-250000),
       TurnTableElevationRegime(0),
       TurnTableElevationRegime(260000),
       TurnTableElevationRegime(500000),
       TurnTableElevationRegime(750000) >>

elevation_regimes ==
    << TurnTableElevationRegime(-750000),
       TurnTableElevationRegime(-500000),
       TurnTableElevationRegime(-250000),
       TurnTableElevationRegime(0),
       TurnTableElevationRegime(250000),
       TurnTableElevationRegime(500000),
       TurnTableElevationRegime(750000) >>

is_in_allowable_range(regime, angle) ==
    Abs(angle - regime.center_angle) <= regime.allowable_offset

\* `angle in regime`
contains(regime, angle) == is_in_allowable_range(regime, angle)

\* regime_a == regime_b: equality is on center_angle alone.
regime_eq(a, b) == a.center_angle = b.center_angle

\* t[i] for a Python tuple t and a 0-based index i: negative indices count
\* from the end, anything else out of range raises IndexError.
PyTupleGet(t, i) ==
    IF 0 <= i /\ i < Len(t) THEN Ok(t[i + 1])
    ELSE IF -Len(t) <= i /\ i < 0 THEN Ok(t[Len(t) + i + 1])
    ELSE Raise("IndexError")

\* t.index(x): 0-based position of the first element equal to x.
PyTupleIndex(t, x) ==
    (CHOOSE i \in 1..Len(t) :
        /\ regime_eq(t[i], x)
        /\ \A j \in 1..(i - 1) : ~regime_eq(t[j], x)) - 1

\* Fault variant of find_best_regime: the key is the signed difference.
find_best_regime_signed(angle) ==
    LET key(i) == angle - elevation_regimes[i].center_angle
        best == CHOOSE i \in 1..Len(elevation_regimes) :
                    \A j \in 1..Len(elevation_regimes) :
                        key(i) < key(j) \/ (key(i) = key(j) /\ i <= j)
        best_fit == elevation_regimes[best]
    IN  IF contains(best_fit, angle) THEN Ok(best_fit) ELSE Raise("ValueError")

\* Fault variant of find_best_regime: the regime after the nearest one.
find_best_regime_off_by_one(angle) ==
    LET key(i) == Abs(angle - elevation_regimes[i].center_angle)
        best == CHOOSE i \in 1..Len(elevation_regimes) :
                    \A j \in 1..Len(elevation_regimes) :
                        key(i) < key(j) \/ (key(i) = key(j) /\ i <= j)
        best_fit == elevation_regimes[IF best < Len(elevation_regimes) THEN best + 1 ELSE best]
    IN  IF contains(best_fit, angle) THEN Ok(best_fit) ELSE Raise("ValueError")

\* min(elevation_regimes, key=...): the first regime at the least distance.
find_best_regime(angle) ==
    LET key(i) == Abs(angle - elevation_regimes[i].center_angle)
        best == CHOOSE i \in 1..Len(elevation_regimes) :
                    \A j \in 1..Len(elevation_regimes) :
                        key(i) < key(j) \/ (key(i) = key(j) /\ i <= j)
        best_fit == elevation_regimes[best]
    IN  IF contains(best_fit, angle) THEN Ok(best_fit) ELSE Raise("ValueError")

\* Fault variant of find_next_regime: the step goes away from the destination.
find_next_regime_reversed(destination_angle, current_regime) ==
    IF contains(current_regime, destination_angle) THEN Ok(current_regime)
    ELSE LET current_regime_index == PyTupleIndex(elevation_regimes, current_regime)
         IN  IF destination_angle > current_regime.center_angle
             THEN PyTupleGet(elevation_regimes, current_regime_index - 1)
             ELSE PyTupleGet(elevation_regimes, current_regime_index + 1)

find_next_regime(destination_angle, current_regime) ==
    IF contains(current_regime, destination_angle) THEN Ok(current_regime)
    ELSE LET current_regime_index == PyTupleIndex(elevation_regimes, current_regime)
         IN  IF destination_angle > current_regime.center_angle
             THEN PyTupleGet(elevation_regimes, current_regime_index + 1)
             ELSE PyTupleGet(elevation_regimes, current_regime_index - 1)

(* ---------------------------------------------------------------------- *)
(* State                                                                   *)
(* ---------------------------------------------------------------------- *)
VARIABLES
    tt,       \* the Turntable object: its session fields
    now,      \* time.monotonic()
    pc,       \* where the (single) calling thread is
    call,     \* the public operation in progress and its arguments
    next_regime,              \* local of _move_to_next_regime, None outside it
    within_regime_elevation,  \* local of _move_to_within_regime
    result,   \* outcome of the operation that has just returned
    entry,    \* the session fields when the operation in progress was called
    sent,     \* frames written to the serial port since the operation was called
    tx,       \* frames written by the latest step (empty if it wrote none)
    hw,       \* the firmware: raw counters, the target it drives to, and, when
              \* the table itself is followed (PhysicalSpec), where the table
              \* stands when the raw elevation counter reads 0, measured from
              \* the position the user last declared zero
    calls,    \* public operations called so far
    faults,   \* link faults so far
    probe,    \* the arguments a module-level function is applied to
    answer,   \* what the function has answered
    port      \* what the serial port held when get_position read it

vars == <<tt, now, pc, call, next_regime, within_regime_elevation, result,
          entry, sent, tx, hw, calls, faults, probe, answer, port>>

NoCall == [op |-> "none", azimuth |-> 0, elevation |-> 0]
NoResult == [exc |-> "none", val |-> None]
\* No module-level function is under study.
NoProbe == [angle |-> 0, regime |-> None]
NoAnswer == [fn |-> "none", out |-> NoResult, path |-> <<>>]
NoPort == [in_waiting |-> 0, data |-> <<>>, raises |-> FALSE]

Frame(kind, azimuth, elevation, by) ==
    [kind |-> kind, azimuth |-> azimuth, elevation |-> elevation, by |-> by]

\* `reps` copies of one frame.
Repeated(frame, reps) == [i \in 1..reps |-> frame]

Turntable(neutral_elevation) ==
    [ neutral_elevation |-> neutral_elevation,
      most_recent_communication_time |-> None,     \* float("-inf")
      has_been_set |-> FALSE,
      current_regime |-> None,
      regime_elevation_offset |-> None ]

Init ==
    /\ \E n \in NeutralElevations : tt = Turntable(n)
    /\ now = 0
    /\ pc = "idle"
    /\ call = NoCall
    /\ next_regime = None
    /\ within_regime_elevation = 0
    /\ result = NoResult
    /\ entry = tt
    /\ sent = <<>>
    /\ tx = <<>>
    /\ calls = 0
    /\ faults = 0
    /\ \E p \in PowerOnPositions :
          hw = [azimuth |-> p[1], elevation |-> p[2], target |-> None, zero |-> None]
    /\ probe = NoProbe
    /\ answer = NoAnswer
    /\ port = NoPort

(* ---------------------------------------------------------------------- *)
(* Turntable: conversions and validation                                   *)
(* ---------------------------------------------------------------------- *)
\* time.monotonic() - most_recent_communication_time > limit, where the
\* initial most_recent_communication_time is -inf.
time_since_last_communication_exceeds(self, t, limit) ==
    \/ self.most_recent_communication_time = None
    \/ t - self.most_recent_communication_time[1] > limit

convert_to_regime_elevation(self, elevation) ==
    IF self.regime_elevation_offset = None THEN Raise("RuntimeError")
    ELSE Ok(elevation - self.regime_elevation_offset[1])

\* Fault variant of convert_from_regime_elevation: the offset is subtracted.
convert_from_regime_elevation_subtracted(self, elevation) ==
    IF self.regime_elevation_offset = None THEN Raise("RuntimeError")
    ELSE Ok(elevation - self.regime_elevation_offset[1])

convert_from_regime_elevation(self, elevation) ==
    IF self.regime_elevation_offset = None THEN Raise("RuntimeError")
    ELSE Ok(elevation + self.regime_elevation_offset[1])

InBounds(bounds, x) == bounds[1] <= x /\ x <= bounds[2]

\* Fault variant of validate_absolute_bounds: neutral_elevation is not added.
validate_absolute_bounds_without_neutral(self, absolute_azimuth, within_regime_el, absolute_elevation) ==
    LET el0 == IF absolute_elevation = None
               THEN convert_from_regime_elevation(self, within_regime_el)
               ELSE Ok(absolute_elevation[1])
    IN  IF el0.exc # "none" THEN el0
        ELSE IF ~InBounds(ABSOLUTE_AZIMUTH_BOUNDS, absolute_azimuth) THEN Ok(FALSE)
        ELSE IF ~InBounds(ABSOLUTE_ELEVATION_BOUNDS, el0.val) THEN Ok(FALSE)
        ELSE Ok(TRUE)

\* absolute_elevation is optional (None when the caller gives the
\* within-regime elevation instead).
validate_absolute_bounds(self, absolute_azimuth, within_regime_el, absolute_elevation) ==
    LET el0 == IF absolute_elevation = None
               THEN convert_from_regime_elevation(self, within_regime_el)
               ELSE Ok(absolute_elevation[1])
    IN  IF el0.exc # "none" THEN el0
        ELSE LET el == IF self.neutral_elevation # 0
                       THEN el0.val + self.neutral_elevation
                       ELSE el0.val
             IN  IF ~InBounds(ABSOLUTE_AZIMUTH_BOUNDS, absolute_azimuth) THEN Ok(FALSE)
                 ELSE IF ~InBounds(ABSOLUTE_ELEVATION_BOUNDS, el) THEN Ok(FALSE)
                 ELSE Ok(TRUE)

validate_elevation_regime_bounds(self, within_regime_el) ==
    IF self.current_regime = None THEN Raise("RuntimeError")
    ELSE Ok(InBounds(REGIME_ELEVATION_BOUNDS, within_regime_el))

\* Fault variant of validate_move_command: the DEAD_TIME test is missing.
validate_move_command_without_dead_time(self, t, azimuth, within_regime_el) ==
    LET valid_absolute == validate_absolute_bounds(self, azimuth, within_regime_el, None)
        valid_regime == validate_elevation_regime_bounds(self, within_regime_el)
    IN  IF valid_absolute.exc # "none" THEN valid_absolute
        ELSE IF ~valid_absolute.val THEN Ok(FALSE)
        ELSE IF valid_regime.exc # "none" THEN valid_regime
        ELSE IF ~valid_regime.val THEN Ok(FALSE)
        ELSE IF ~self.has_been_set THEN Ok(FALSE)
        ELSE Ok(TRUE)

\* validate_move_command(azimuth=..., within_regime_elevation=...)
validate_move_command(self, t, azimuth, within_regime_el) ==
    LET valid_absolute == validate_absolute_bounds(self, azimuth, within_regime_el, None)
        valid_regime == validate_elevation_regime_bounds(self, within_regime_el)
    IN  IF valid_absolute.exc # "none" THEN valid_absolute
        ELSE IF ~valid_absolute.val THEN Ok(FALSE)
        ELSE IF valid_regime.exc # "none" THEN valid_regime
        ELSE IF ~valid_regime.val THEN Ok(FALSE)
        ELSE IF time_since_last_communication_exceeds(self, t, DEAD_TIME) THEN Ok(FALSE)
        ELSE IF ~self.has_been_set THEN Ok(FALSE)
        ELSE Ok(TRUE)

\* Fault variant of validate_set_command: the values are compared as the
\* frame would print them.
validate_set_command_as_printed(azimuth, elevation) ==
    Format3(azimuth) = 0 /\ Format3(elevation) = 0

validate_set_command(azimuth, elevation) == azimuth = 0 /\ elevation = 0

\* Fault variant of send_move_command: the frame carries elevation first.
send_move_command_swapped(self, t, azimuth, elevation) ==
    LET valid == validate_move_command(self, t, azimuth, elevation)
    IN  IF valid.exc # "none" THEN valid
        ELSE IF ~valid.val THEN Ok(<<>>)
        ELSE Ok(Repeated(Frame("MOV", Format3(elevation), Format3(azimuth), "move_to"),
                         MOVE_REPS))

\* The frames _send_move_command writes: none when validation fails.
send_move_command(self, t, azimuth, elevation) ==
    LET valid == validate_move_command(self, t, azimuth, elevation)
    IN  IF valid.exc # "none" THEN valid
        ELSE IF ~valid.val THEN Ok(<<>>)
        ELSE Ok(Repeated(Frame("MOV", Format3(azimuth), Format3(elevation), "move_to"),
                         MOVE_REPS))

(* ---------------------------------------------------------------------- *)
(* Turntable.move_to, up to its first blocking point                       *)
(* ---------------------------------------------------------------------- *)
MoveStart(exc, nr, within) == [exc |-> exc, next_regime |-> nr, within |-> within]

\* _move_to_within_regime up to wait_for_position: the validation that
\* raises ValueError.
move_to_within_regime_start(self, t, azimuth, within, nr) ==
    LET valid == validate_move_command(self, t, azimuth, within)
    IN  IF valid.exc # "none" THEN MoveStart(valid.exc, None, 0)
        ELSE IF ~valid.val THEN MoveStart("ValueError", None, 0)
        ELSE MoveStart("none", nr, within)

\* move_to once `elevation` lies in the current regime: the conversion to
\* the within-regime elevation and the call of _move_to_within_regime.
move_to_tail(self, t, azimuth, elevation, nr) ==
    LET within == convert_to_regime_elevation(self, elevation)
    IN  IF within.exc # "none" THEN MoveStart(within.exc, None, 0)
        ELSE move_to_within_regime_start(self, t, azimuth, within.val, nr)

\* Fault variant of move_to_loop: the waypoint is the centre of the current
\* regime instead of the centre of the next one.
move_to_loop_own_centre(self, t, azimuth, elevation) ==
    LET regime == self.current_regime[1]
        nr == find_next_regime(elevation, regime)
    IN  IF contains(regime, elevation)
        THEN move_to_tail(self, t, azimuth, elevation, None)
        ELSE IF nr.exc # "none" THEN MoveStart(nr.exc, None, 0)
        ELSE move_to_tail(self, t, azimuth, regime.center_angle, Some(nr.val))

\* One evaluation of move_to's loop `while elevation not in current_regime`:
\* either the loop ends and the final move starts, or _move_to_next_regime
\* starts the move to the next regime's centre (the nested move_to finds the
\* waypoint inside the current regime, by the assertion before it).
move_to_loop(self, t, azimuth, elevation) ==
    LET regime == self.current_regime[1]
        nr == find_next_regime(elevation, regime)
    IN  IF contains(regime, elevation)
        THEN move_to_tail(self, t, azimuth, elevation, None)
        ELSE IF nr.exc # "none" THEN MoveStart(nr.exc, None, 0)
        ELSE IF ~contains(regime, nr.val.center_angle)
             THEN MoveStart("AssertionError", None, 0)
        ELSE move_to_tail(self, t, azimuth, nr.val.center_angle, Some(nr.val))

\* Fault variant of move_to_start: the test for an unset regime is missing
\* and the target is taken as it is given.
move_to_start_unguarded(self, t, azimuth, elevation) ==
    IF self.current_regime = None THEN MoveStart("none", None, elevation)
    ELSE move_to_loop(self, t, azimuth, elevation)

\* move_to from its call.
move_to_start(self, t, azimuth, elevation) ==
    IF self.current_regime = None THEN MoveStart("RuntimeError", None, 0)
    ELSE move_to_loop(self, t, azimuth, elevation)

(* ---------------------------------------------------------------------- *)
(* Turntable.parse_az_el                                                   *)
(* ---------------------------------------------------------------------- *)
(* A byte buffer is a sequence of pieces:                                  *)
(*   frame   - bytes that azimuth_elevation_regex matches,                 *)
(*             "Pos= El: <e> , Az: <a>"; `text` holds the two numbers in   *)
(*             the order of the bytes, each as a count of hundredths;      *)
(*   broken  - "Pos" followed by ASCII bytes that the regex does not       *)
(*             match (a truncated frame, a field with too many digits);    *)
(*   junk    - ASCII bytes without "Pos" and without a line feed;          *)
(*   high    - a byte that is not ASCII;                                   *)
(*   newline - the byte "\n".                                              *)
FramePiece(elevation_text, azimuth_text) ==
    [piece |-> "frame", text |-> <<elevation_text, azimuth_text>>]
OtherPiece(piece) == [piece |-> piece, text |-> <<>>]

\* Pieces the buffers are made of, and the longest buffer.
MaxBuffer == 5
BufferPieces ==
    { FramePiece(100, 200), FramePiece(-300, 400),
      OtherPiece("broken"), OtherPiece("junk"), OtherPiece("high"),
      OtherPiece("newline") }

\* All sequences over `pieces` of length n.
RECURSIVE Buffers(_, _)
Buffers(pieces, n) ==
    IF n = 0 THEN {<<>>}
    ELSE {Append(b, x) : b \in Buffers(pieces, n - 1), x \in pieces}

\* data.split(b"\n")
RECURSIVE split_lines(_)
split_lines(data) ==
    IF \A i \in DOMAIN data : data[i].piece # "newline" THEN <<data>>
    ELSE LET i == CHOOSE i \in DOMAIN data :
                      /\ data[i].piece = "newline"
                      /\ \A j \in 1..(i - 1) : data[j].piece # "newline"
         IN  <<SubSeq(data, 1, i - 1)>> \o split_lines(SubSeq(data, i + 1, Len(data)))

\* b"Pos" in line
has_pos(line) == \E i \in DOMAIN line : line[i].piece \in {"frame", "broken"}

\* float() of a field the regex matched: the count of hundredths as an angle.
float_of(text) == text * 100

\* Fault variant of parse_line: the first "Pos" on the line is not looked
\* for, and a byte that is not ASCII anywhere on the line is not survived.
parse_line_undefended(line) ==
    IF \E i \in DOMAIN line : line[i].piece = "high"
    THEN Raise("UnicodeDecodeError")
    ELSE IF \A i \in DOMAIN line : line[i].piece # "frame" THEN Ok(None)
    ELSE LET m == CHOOSE i \in DOMAIN line :
                      /\ line[i].piece = "frame"
                      /\ \A j \in 1..(i - 1) : line[j].piece # "frame"
         IN  Ok(AzEl(float_of(line[m].text[2]), float_of(line[m].text[1])))

\* The body of parse_az_el's loop for one line: Ok(None) where the code
\* says `continue`, the AzEl where it returns.
parse_line(line) ==
    IF ~has_pos(line) THEN Ok(None)
    ELSE LET pos_index == CHOOSE i \in DOMAIN line :
                              /\ line[i].piece \in {"frame", "broken"}
                              /\ \A j \in 1..(i - 1) :
                                    line[j].piece \notin {"frame", "broken"}
             rest == SubSeq(line, pos_index, Len(line))
         IN  IF \E i \in DOMAIN rest : rest[i].piece = "high"
             THEN Ok(None)          \* UnicodeDecodeError, caught
             ELSE IF \A i \in DOMAIN rest : rest[i].piece # "frame"
             THEN Ok(None)          \* the regex finds nothing
             ELSE LET m == CHOOSE i \in DOMAIN rest :
                               /\ rest[i].piece = "frame"
                               /\ \A j \in 1..(i - 1) : rest[j].piece # "frame"
                  IN  Ok(AzEl(float_of(rest[m].text[2]), float_of(rest[m].text[1])))

\* parse_az_el's loop over lines[k], lines[k - 1], ..., lines[1].
RECURSIVE parse_lines(_, _)
parse_lines(lines, k) ==
    IF k = 0 THEN Ok(None)
    ELSE LET found == parse_line(lines[k])
         IN  IF found.exc # "none" THEN found
             ELSE IF found.val # None THEN found
             ELSE parse_lines(lines, k - 1)

parse_az_el(data) ==
    LET lines == split_lines(data)
    IN  parse_lines(lines, Len(lines))

(* ---------------------------------------------------------------------- *)
(* The firmware and the serial link                                        *)
(* ---------------------------------------------------------------------- *)
\* The newest telemetry frame, "Pos= El: %.2f , Az: %.2f \r\n", as parsed.
Telemetry == AzEl(Format2(hw.azimuth), Format2(hw.elevation))

\* The firmware after it has received `frame`: MOV sets the target, SET
\* zeroes both counters, the stop byte ends the motion.
Received(h, frame) ==
    IF frame.kind = "MOV"
    THEN [h EXCEPT !.target = Some(AzEl(frame.azimuth, frame.elevation))]
    ELSE IF frame.kind = "SET"
    THEN [azimuth |-> 0, elevation |-> 0, target |-> None,
          zero |-> IF h.zero = None THEN None
                   ELSE IF frame.by = "send_set_command" THEN Some(0)
                   ELSE Some(h.zero[1] + h.elevation)]
    ELSE [h EXCEPT !.target = None]

\* The repetitions of a command reach the firmware, or all are lost.
Delivered(frames) ==
    IF frames = <<>> THEN hw' = hw /\ faults' = faults
    ELSE \/ hw' = Received(hw, frames[1]) /\ faults' = faults
         \/ faults < MaxFaults /\ hw' = hw /\ faults' = faults + 1

(* ---------------------------------------------------------------------- *)
(* Steps of the calling thread                                             *)
(* ---------------------------------------------------------------------- *)
Returns(out) ==
    /\ pc' = "returned"
    /\ result' = out
    /\ next_regime' = None
    /\ within_regime_elevation' = 0

Writes(frames) ==
    /\ sent' = sent \o frames
    /\ tx' = frames
    /\ Delivered(frames)

\* The thread goes on with what move_to_start / move_to_loop found.
Proceeds(m) ==
    IF m.exc # "none" THEN Returns(Raise(m.exc))
    ELSE /\ pc' = "wait_for_position"
         /\ next_regime' = m.next_regime
         /\ within_regime_elevation' = m.within
         /\ result' = result

\* The caller enters a public operation.
Entered(op, azimuth, elevation) ==
    /\ pc = "idle"
    /\ call' = [op |-> op, azimuth |-> azimuth, elevation |-> elevation]
    /\ entry' = tt
    /\ now' = now
    /\ calls < MaxCalls
    /\ calls' = calls + 1
    /\ UNCHANGED <<probe, answer>>

Called(op, azimuth, elevation) ==
    /\ Entered(op, azimuth, elevation)
    /\ port' = port

\* A step inside the operation in progress.
Within(at) ==
    /\ pc = at
    /\ UNCHANGED <<now, call, entry, calls, probe, answer, port>>

\* A successfully parsed telemetry frame updates most_recent_communication_time.
Heard(self, t) == [self EXCEPT !.most_recent_communication_time = Some(t)]

MoveTo(azimuth, elevation) ==
    /\ Called("move_to", azimuth, elevation)
    /\ Proceeds(move_to_start(tt, now, azimuth, elevation))
    /\ sent' = <<>>
    /\ tx' = <<>>
    /\ UNCHANGED <<tt, hw, faults>>

\* _move_to_within_regime: wait_for_position has a reading; then
\* _send_move_command, which validates again and writes nothing when the
\* validation fails.
StartingPosition ==
    /\ Within("wait_for_position")
    /\ LET self == Heard(tt, now)
           position == IF self.current_regime = None THEN Ok(Telemetry.elevation)
                       ELSE convert_from_regime_elevation(self, Telemetry.elevation)
           frames == send_move_command(self, now, call.azimuth, within_regime_elevation)
       IN  /\ tt' = self
           /\ IF position.exc # "none"
              THEN Returns(Raise(position.exc)) /\ Writes(<<>>)
              ELSE IF frames.exc # "none"
              THEN Returns(Raise(frames.exc)) /\ Writes(<<>>)
              ELSE /\ Writes(frames.val)
                   /\ pc' = "arrival_loop"
                   /\ UNCHANGED <<next_regime, within_regime_elevation, result>>

\* Fault variant of has_arrived: one axis within its margin is enough.
has_arrived_on_either_axis(current_position, azimuth, within_regime_el, azimuth_margin, elevation_margin) ==
    LET azimuth_delta == Abs(current_position.azimuth - azimuth)
        elevation_delta == Abs(current_position.elevation - within_regime_el)
    IN  azimuth_delta <= azimuth_margin \/ elevation_delta <= elevation_margin

\* The test that ends the arrival loop of _move_to_within_regime.
has_arrived(current_position, azimuth, within_regime_el, azimuth_margin, elevation_margin) ==
    LET azimuth_delta == Abs(current_position.azimuth - azimuth)
        elevation_delta == Abs(current_position.elevation - within_regime_el)
    IN  azimuth_delta <= azimuth_margin /\ elevation_delta <= elevation_margin

\* _move_to_within_regime: one reading of the loop that waits for arrival
\* (move_to passes its default margins, ALLOWABLE_DISCREPANCY_DEG).
Arrival ==
    /\ Within("arrival_loop")
    /\ LET current_position == Telemetry
       IN  IF has_arrived(current_position, call.azimuth, within_regime_elevation,
                          ALLOWABLE_DISCREPANCY_DEG, ALLOWABLE_DISCREPANCY_DEG)
           THEN IF next_regime = None
                THEN Returns(Ok(current_position))
                ELSE /\ pc' = "waypoint_read"
                     /\ UNCHANGED <<next_regime, within_regime_elevation, result>>
           ELSE UNCHANGED <<pc, next_regime, within_regime_elevation, result>>
    /\ tt' = Heard(tt, now)
    /\ Writes(<<>>)

\* Fault variant of Waypoint: the reading at the waypoint replaces the offset
\* instead of being added to it.
Waypoint_offset_replaced ==
    /\ Within("waypoint_read")
    /\ LET self == Heard(tt, now)
           within_regime_position == Telemetry
           real_elevation == convert_from_regime_elevation(self, within_regime_position.elevation)
           new_offset == within_regime_position.elevation
           offset_done == [self EXCEPT !.regime_elevation_offset = Some(new_offset)]
           advanced == [offset_done EXCEPT !.current_regime = next_regime]
       IN  IF real_elevation.exc # "none"
           THEN tt' = self /\ Returns(Raise(real_elevation.exc)) /\ Writes(<<>>)
           ELSE IF \/ ~contains(self.current_regime[1], real_elevation.val)
                   \/ ~contains(next_regime[1], real_elevation.val)
           THEN tt' = self /\ Returns(Raise("AssertionError")) /\ Writes(<<>>)
           ELSE IF validate_set_command(call.azimuth, 0)
           THEN /\ tt' = offset_done
                /\ Writes(Repeated(Frame("SET", Format3(call.azimuth), Format3(0), "move_to"),
                                   SET_REPS))
                /\ pc' = "set_loop"
                /\ UNCHANGED <<next_regime, within_regime_elevation, result>>
           ELSE /\ tt' = advanced
                /\ Writes(<<>>)
                /\ Proceeds(move_to_loop(advanced, now, call.azimuth, call.elevation))

\* _move_to_next_regime after the move to the waypoint: the reading at the
\* waypoint, the sanity checks, the new offset and the SET command.
Waypoint ==
    /\ Within("waypoint_read")
    /\ LET self == Heard(tt, now)
           within_regime_position == Telemetry
           real_elevation == convert_from_regime_elevation(self, within_regime_position.elevation)
           new_offset == IF self.regime_elevation_offset = None
                         THEN within_regime_position.elevation
                         ELSE self.regime_elevation_offset[1] + within_regime_position.elevation
           offset_done == [self EXCEPT !.regime_elevation_offset = Some(new_offset)]
           advanced == [offset_done EXCEPT !.current_regime = next_regime]
       IN  IF real_elevation.exc # "none"
           THEN tt' = self /\ Returns(Raise(real_elevation.exc)) /\ Writes(<<>>)
           ELSE IF \/ ~contains(self.current_regime[1], real_elevation.val)
                   \/ ~contains(next_regime[1], real_elevation.val)
           THEN tt' = self /\ Returns(Raise("AssertionError")) /\ Writes(<<>>)
           ELSE IF validate_set_command(call.azimuth, 0)
           THEN /\ tt' = offset_done
                /\ Writes(Repeated(Frame("SET", Format3(call.azimuth), Format3(0), "move_to"),
                                   SET_REPS))
                /\ pc' = "set_loop"
                /\ UNCHANGED <<next_regime, within_regime_elevation, result>>
           ELSE /\ tt' = advanced
                /\ Writes(<<>>)
                /\ Proceeds(move_to_loop(advanced, now, call.azimuth, call.elevation))

\* Fault variant of SetConfirmation: the regime is set and the offset is left
\* as it was, unset on a new session.
SetConfirmation_offset_left ==
    /\ Within("set_loop")
    /\ LET self == Heard(tt, now)
           reported_position == Telemetry
           set_position == IF call.op = "send_set_command"
                           THEN AzEl(call.azimuth, call.elevation)
                           ELSE AzEl(call.azimuth, 0)
           confirmed == [self EXCEPT !.has_been_set = TRUE]
           best == find_best_regime(reported_position.elevation)
           with_regime == [confirmed EXCEPT
                             !.current_regime = Some(best.val)]
           advanced == [confirmed EXCEPT !.current_regime = next_regime]
       IN  IF \/ Abs(reported_position.azimuth - set_position.azimuth) > ALLOWABLE_DISCREPANCY_DEG
              \/ Abs(reported_position.elevation - set_position.elevation) > ALLOWABLE_DISCREPANCY_DEG
           THEN /\ tt' = self
                /\ UNCHANGED <<pc, next_regime, within_regime_elevation, result>>
           ELSE IF call.op = "send_set_command"
           THEN IF best.exc # "none"
                THEN tt' = confirmed /\ Returns(Raise(best.exc))
                ELSE tt' = with_regime /\ Returns(Ok(set_position))
           ELSE /\ tt' = advanced
                /\ Proceeds(move_to_loop(advanced, now, call.azimuth, call.elevation))
    /\ Writes(<<>>)

\* send_set_command: one reading of the loop that waits for the confirmation.
SetConfirmation ==
    /\ Within("set_loop")
    /\ LET self == Heard(tt, now)
           reported_position == Telemetry
           set_position == IF call.op = "send_set_command"
                           THEN AzEl(call.azimuth, call.elevation)
                           ELSE AzEl(call.azimuth, 0)
           confirmed == [self EXCEPT !.has_been_set = TRUE]
           best == find_best_regime(reported_position.elevation)
           with_regime == [confirmed EXCEPT
                             !.current_regime = Some(best.val),
                             !.regime_elevation_offset =
                                 IF @ = None THEN Some(0) ELSE @]
           advanced == [confirmed EXCEPT !.current_regime = next_regime]
       IN  IF \/ Abs(reported_position.azimuth - set_position.azimuth) > ALLOWABLE_DISCREPANCY_DEG
              \/ Abs(reported_position.elevation - set_position.elevation) > ALLOWABLE_DISCREPANCY_DEG
           THEN /\ tt' = self
                /\ UNCHANGED <<pc, next_regime, within_regime_elevation, result>>
           ELSE IF call.op = "send_set_command"
           THEN IF best.exc # "none"
                THEN tt' = confirmed /\ Returns(Raise(best.exc))
                ELSE tt' = with_regime /\ Returns(Ok(set_position))
           ELSE /\ tt' = advanced
                /\ Proceeds(move_to_loop(advanced, now, call.azimuth, call.elevation))
    /\ Writes(<<>>)

SendSetCommand(azimuth, elevation) ==
    /\ Called("send_set_command", azimuth, elevation)
    /\ sent' = IF validate_set_command(azimuth, elevation)
               THEN Repeated(Frame("SET", Format3(azimuth), Format3(elevation),
                                   "send_set_command"), SET_REPS)
               ELSE <<>>
    /\ tx' = sent'
    /\ Delivered(sent')
    /\ IF validate_set_command(azimuth, elevation)
       THEN /\ pc' = "set_loop"
            /\ UNCHANGED <<next_regime, within_regime_elevation, result>>
       ELSE Returns(Ok(None))
    /\ tt' = tt

\* Coordinate.from_turntable: the turntable-frame and absolute fields (the
\* antenna-frame fields, which are trigonometric, are left out).
from_turntable(azimuth, elevation, neutral_elevation) ==
    [ turntable_azimuth |-> azimuth,
      turntable_elevation |-> elevation,
      absolute_turntable_azimuth |-> azimuth,
      absolute_turntable_elevation |-> elevation + neutral_elevation,
      neutral_elevation |-> neutral_elevation,
      kind |-> "turntable" ]

\* get_position's value for the reading `reported_position`.
position_of(self, reported_position) ==
    LET elevation == convert_from_regime_elevation(self, reported_position.elevation)
    IN  IF self.current_regime = None
        THEN Ok(from_turntable(reported_position.azimuth, reported_position.elevation,
                               self.neutral_elevation))
        ELSE IF elevation.exc # "none" THEN elevation
        ELSE Ok(from_turntable(reported_position.azimuth, elevation.val,
                               self.neutral_elevation))

\* The fewest waiting bytes that attempt_read reads.
MIN_IN_WAITING == 100

\* The newest telemetry frame as the bytes the firmware prints.
TelemetryFrame ==
    FramePiece(Format2(hw.elevation) \div 100, Format2(hw.azimuth) \div 100)

\* What the serial port may hold when it is read: in_waiting bytes that make
\* up `data`, or a port whose read raises.  One or two frames are fewer than
\* MIN_IN_WAITING bytes; frames after older bytes are more.
PortContents ==
    { [in_waiting |-> 0, data |-> <<>>, raises |-> FALSE],
      [in_waiting |-> 27, data |-> <<TelemetryFrame, OtherPiece("newline")>>,
       raises |-> FALSE],
      [in_waiting |-> 99,
       data |-> <<OtherPiece("junk"), OtherPiece("newline"),
                  TelemetryFrame, OtherPiece("newline")>>,
       raises |-> FALSE],
      [in_waiting |-> 100,
       data |-> <<OtherPiece("junk"), OtherPiece("newline"),
                  TelemetryFrame, OtherPiece("newline")>>,
       raises |-> FALSE],
      [in_waiting |-> 135,
       data |-> <<OtherPiece("junk"), OtherPiece("newline"), OtherPiece("broken")>>,
       raises |-> FALSE],
      [in_waiting |-> 0, data |-> <<>>, raises |-> TRUE] }

\* attempt_read: None below the threshold and for no bytes; when the read
\* raises, the exception is logged and the unassigned local `data` is read.
attempt_read(p) ==
    IF p.raises THEN Raise("UnboundLocalError")
    ELSE IF p.in_waiting < MIN_IN_WAITING THEN Ok(None)
    ELSE Ok(p.data)

\* _get_within_regime_position at time t: its outcome and the controller
\* after it.
get_within_regime_position(self, p, t) ==
    LET data == attempt_read(p)
        parsed_data == parse_az_el(data.val)
    IN  IF data.exc # "none" THEN [out |-> data, self |-> self]
        ELSE IF data.val = <<>> THEN [out |-> Ok(None), self |-> self]
        ELSE IF parsed_data.val = None THEN [out |-> Ok(None), self |-> self]
        ELSE [out |-> parsed_data, self |-> Heard(self, t)]

\* get_position, reading the port holding `p`.
get_position(self, p, t) ==
    LET read == get_within_regime_position(self, p, t)
    IN  IF read.out.exc # "none" THEN read
        ELSE IF read.out.val = None THEN read
        ELSE [out |-> position_of(read.self, read.out.val), self |-> read.self]

GetPosition ==
    \E p \in PortContents :
        /\ Entered("get_position", 0, 0)
        /\ p.raises => faults < MaxFaults
        /\ port' = p
        /\ tt' = get_position(tt, p, now).self
        /\ Returns(get_position(tt, p, now).out)
        /\ faults' = IF p.raises THEN faults + 1 ELSE faults
        /\ sent' = <<>>
        /\ tx' = <<>>
        /\ hw' = hw

WaitForPosition ==
    /\ Called("wait_for_position", 0, 0)
    /\ pc' = "wait_position"
    /\ sent' = <<>>
    /\ tx' = <<>>
    /\ UNCHANGED <<tt, next_regime, within_regime_elevation, result, hw, faults>>

\* wait_for_position: the reading that ends its loop.
PositionArrives ==
    /\ Within("wait_position")
    /\ tt' = Heard(tt, now)
    /\ Returns(position_of(tt', Telemetry))
    /\ Writes(<<>>)

SendStopCommand ==
    /\ Called("send_stop_command", 0, 0)
    /\ sent' = Repeated(Frame("STOP", 0, 0, "send_stop_command"), STOP_REPEAT)
    /\ tx' = sent'
    /\ Delivered(sent')
    /\ Returns(Ok(None))
    /\ tt' = tt

\* Fault variant of SendEmergencyMoveCommand: the frames are written only
\* for a target inside the absolute bounds.
SendEmergencyMoveCommand_validated(azimuth, elevation) ==
    /\ Called("send_emergency_move_command", azimuth, elevation)
    /\ sent' = IF /\ InBounds(ABSOLUTE_AZIMUTH_BOUNDS, azimuth)
                  /\ InBounds(ABSOLUTE_ELEVATION_BOUNDS, elevation)
               THEN Repeated(Frame("MOV", Format3(azimuth), Format3(elevation),
                                   "send_emergency_move_command"), EMERGENCY_REPS)
               ELSE <<>>
    /\ tx' = sent'
    /\ Delivered(sent')
    /\ Returns(Ok(None))
    /\ tt' = tt

SendEmergencyMoveCommand(azimuth, elevation) ==
    /\ Called("send_emergency_move_command", azimuth, elevation)
    /\ sent' = Repeated(Frame("MOV", Format3(azimuth), Format3(elevation),
                              "send_emergency_move_command"), EMERGENCY_REPS)
    /\ tx' = sent'
    /\ Delivered(sent')
    /\ Returns(Ok(None))
    /\ tt' = tt

\* attempt_read when the serial read raises: the exception is logged and the
\* unassigned local `data` is then read.
SerialReadRaises ==
    /\ pc \in {"wait_for_position", "arrival_loop", "waypoint_read", "set_loop",
               "wait_position"}
    /\ faults < MaxFaults
    /\ faults' = faults + 1
    /\ Returns(Raise("UnboundLocalError"))
    /\ sent' = sent
    /\ tx' = <<>>
    /\ UNCHANGED <<tt, now, call, entry, hw, calls, probe, answer, port>>

\* The caller takes the outcome and is ready for its next call.
CallerResumes ==
    /\ pc = "returned"
    /\ pc' = "idle"
    /\ call' = NoCall
    /\ result' = NoResult
    /\ entry' = tt
    /\ sent' = <<>>
    /\ tx' = <<>>
    /\ port' = NoPort
    /\ UNCHANGED <<tt, now, next_regime, within_regime_elevation, hw, calls, faults,
                   probe, answer>>

(* ---------------------------------------------------------------------- *)
(* The firmware's motion and the clock                                     *)
(* ---------------------------------------------------------------------- *)
Quiet == tx' = <<>> /\ UNCHANGED <<tt, pc, call, next_regime, within_regime_elevation,
                                  result, entry, sent, calls, faults, probe, answer,
                                  port>>

\* The positions at which the firmware stops driving an axis to `target`.
SettledAt(target) == {target - FIRMWARE_TOLERANCE, target, target + FIRMWARE_TOLERANCE}

\* The firmware drives both axes to its target and stops within its tolerance.
HwMoves ==
    /\ hw.target # None
    /\ \/ Abs(hw.azimuth - hw.target[1].azimuth) > FIRMWARE_TOLERANCE
       \/ Abs(hw.elevation - hw.target[1].elevation) > FIRMWARE_TOLERANCE
    /\ \E a \in {hw.target[1].azimuth}, e \in SettledAt(hw.target[1].elevation) :
          hw' = [hw EXCEPT !.azimuth = a, !.elevation = e]
    /\ Quiet
    /\ now' = now

\* Time passes between two operations.  (Inside an operation the clock is
\* read only by validate_move_command, in the step of the call itself or in
\* a step that has just parsed a telemetry frame.)
Tick ==
    /\ pc = "idle"
    /\ now + TickSeconds <= MaxTime
    /\ now' = now + TickSeconds
    /\ Quiet
    /\ hw' = hw

Next ==
    \/ \E a \in MoveAzimuths, e \in MoveElevations : MoveTo(a, e)
    \/ StartingPosition
    \/ Arrival
    \/ Waypoint
    \/ SetConfirmation
    \/ \E p \in SetArguments : SendSetCommand(p[1], p[2])
    \/ GetPosition
    \/ WaitForPosition
    \/ PositionArrives
    \/ SendStopCommand
    \/ \E p \in EmergencyTargets : SendEmergencyMoveCommand(p[1], p[2])
    \/ SerialReadRaises
    \/ CallerResumes
    \/ HwMoves
    \/ Tick

Spec == Init /\ [][Next]_vars

\* The same controller on a table whose physical elevation is followed: the
\* table is powered on where it stands, which is the zero until a SET frame
\* moves it.
PhysicalInit ==
    /\ tt = Turntable(0)
    /\ now = 0
    /\ pc = "idle"
    /\ call = NoCall
    /\ next_regime = None
    /\ within_regime_elevation = 0
    /\ result = NoResult
    /\ entry = tt
    /\ sent = <<>>
    /\ tx = <<>>
    /\ calls = 0
    /\ faults = 0
    /\ \E p \in PowerOnPositions :
          hw = [azimuth |-> p[1], elevation |-> p[2], target |-> None, zero |-> Some(0)]
    /\ probe = NoProbe
    /\ answer = NoAnswer
    /\ port = NoPort

PhysicalSpec == PhysicalInit /\ [][Next]_vars

\* Sessions of zeroing and moves (azimuth 0) that go down the whole catalog:
\* to -80, in the lowest regime, and to -110, below every window.
TraverseElevations == {-800000, -1100000}

TraverseNext ==
    \/ \E e \in TraverseElevations : MoveTo(0, e)
    \/ StartingPosition
    \/ Arrival
    \/ Waypoint
    \/ SetConfirmation
    \/ SendSetCommand(0, 0)
    \/ CallerResumes
    \/ HwMoves
    \/ Tick

TraverseSpec == Init /\ [][TraverseNext]_vars

\* Sessions made of zeroings and of moves to positions inside the bounds of
\* the table, which go on only as long as every call returns normally; no
\* time passes, so that no session goes stale.
SessionAzimuths == {0, 100000}
SessionElevations == {400000, -100000}

\* The caller goes on after a call that returned normally (a zeroing
\* confirmed, a move completed).
CallerGoesOn ==
    /\ result.exc = "none"
    /\ result.val # None
    /\ CallerResumes

SessionNext ==
    \/ \E a \in SessionAzimuths, e \in SessionElevations : MoveTo(a, e)
    \/ StartingPosition
    \/ Arrival
    \/ Waypoint
    \/ SetConfirmation
    \/ SendSetCommand(0, 0)
    \/ CallerGoesOn
    \/ HwMoves

SessionSpec == Init /\ [][SessionNext]_vars

\* Sessions on hardware that does its part: no command is lost in all its
\* repetitions (the allowance of link faults is used up from the start), the
\* firmware drives the table to the target it was given, and every reading
\* of a polling loop finds a well-formed frame.
FairElevations == {400000, -800000}

FairInit ==
    /\ tt = Turntable(0)
    /\ now = 0
    /\ pc = "idle"
    /\ call = NoCall
    /\ next_regime = None
    /\ within_regime_elevation = 0
    /\ result = NoResult
    /\ entry = tt
    /\ sent = <<>>
    /\ tx = <<>>
    /\ calls = 0
    /\ faults = MaxFaults
    /\ \E p \in PowerOnPositions :
          hw = [azimuth |-> p[1], elevation |-> p[2], target |-> None, zero |-> None]
    /\ probe = NoProbe
    /\ answer = NoAnswer
    /\ port = NoPort

FairNext ==
    \/ \E a \in SessionAzimuths, e \in FairElevations : MoveTo(a, e)
    \/ StartingPosition
    \/ Arrival
    \/ Waypoint
    \/ SetConfirmation
    \/ SendSetCommand(0, 0)
    \/ WaitForPosition
    \/ PositionArrives
    \/ CallerResumes
    \/ HwMoves

\* The calling thread keeps running its loops, each reading of which finds a
\* frame, and the firmware keeps driving.
FairSpec ==
    /\ FairInit
    /\ [][FairNext]_vars
    /\ WF_vars(StartingPosition)
    /\ WF_vars(Arrival)
    /\ WF_vars(Waypoint)
    /\ WF_vars(SetConfirmation)
    /\ WF_vars(PositionArrives)
    /\ WF_vars(HwMoves)

(* ---------------------------------------------------------------------- *)
(* The regime catalog's functions, applied on their own                    *)
(* ---------------------------------------------------------------------- *)
\* The controller's variables, which the module-level functions do not touch.
session_vars == <<tt, now, pc, call, next_regime, within_regime_elevation, result,
                  entry, sent, tx, hw, calls, faults, port>>

\* No controller is at work.
NoSession ==
    /\ tt = Turntable(0)
    /\ now = 0
    /\ pc = "idle"
    /\ call = NoCall
    /\ next_regime = None
    /\ within_regime_elevation = 0
    /\ result = NoResult
    /\ entry = tt
    /\ sent = <<>>
    /\ tx = <<>>
    /\ calls = 0
    /\ faults = 0
    /\ hw = [azimuth |-> 0, elevation |-> 0, target |-> None, zero |-> None]
    /\ port = NoPort

\* Applications of find_next_regime in one chain.
MaxSteps == 9

\* The angles the functions are applied to: every half degree from -110 to
\* 110, and the values 0.0001 degree to either side of every whole degree
\* (window edges, absolute bounds and centres among them).
ProbeAngles ==
    {k * 5000 : k \in -220..220}
        \cup {k * 10000 + d : k \in -110..110, d \in {-1, 1}}

CatalogInit ==
    /\ NoSession
    /\ \E a \in ProbeAngles, i \in DOMAIN elevation_regimes :
          probe = [angle |-> a, regime |-> Some(elevation_regimes[i])]
    /\ answer = NoAnswer

\* find_best_regime(probe.angle)
ApplyFindBestRegime ==
    /\ answer.fn = "none"
    /\ answer' = [fn |-> "find_best_regime",
                  out |-> find_best_regime(probe.angle),
                  path |-> <<>>]
    /\ UNCHANGED <<probe, session_vars>>

\* current = find_next_regime(probe.angle, current), first from
\* probe.regime and then, as move_to's loop does, for as long as the angle
\* is not in the regime found.  answer.path lists the regimes it was applied to.
ApplyFindNextRegime ==
    /\ \/ answer.fn = "none"
       \/ /\ answer.fn = "find_next_regime"
          /\ answer.out.exc = "none"
          /\ ~contains(answer.out.val, probe.angle)
    /\ Len(answer.path) < MaxSteps
    /\ LET current == IF answer.fn = "none" THEN probe.regime[1] ELSE answer.out.val
       IN  answer' = [fn |-> "find_next_regime",
                      out |-> find_next_regime(probe.angle, current),
                      path |-> Append(answer.path, current)]
    /\ UNCHANGED <<probe, session_vars>>

CatalogNext ==
    \/ ApplyFindBestRegime
    \/ ApplyFindNextRegime

CatalogSpec == CatalogInit /\ [][CatalogNext]_vars

(* ---------------------------------------------------------------------- *)
(* Turntable.parse_az_el, applied on its own                               *)
(* ---------------------------------------------------------------------- *)
ParserInit ==
    /\ NoSession
    /\ \E n \in 0..MaxBuffer : \E data \in Buffers(BufferPieces, n) :
          probe = [data |-> data]
    /\ answer = NoAnswer

ApplyParseAzEl ==
    /\ answer.fn = "none"
    /\ answer' = [fn |-> "parse_az_el", out |-> parse_az_el(probe.data), path |-> <<>>]
    /\ UNCHANGED <<probe, session_vars>>

ParserNext == ApplyParseAzEl

ParserSpec == ParserInit /\ [][ParserNext]_vars

(* ---------------------------------------------------------------------- *)
(* Turntable.find                                                          *)
(* ---------------------------------------------------------------------- *)
\* The polls of one port: range(10).
FIND_POLLS == 10

\* The longest list of serial ports.
MaxPorts == 2

\* A serial port as comports() lists it, and whether serial.Serial opens it.
SerialPort(device, opens) == [device |-> device, opens |-> opens]

\* What a poll of an open port may find waiting: whatever is behind the
\* port, any poll may find no bytes, bytes without a frame, a frame, or a
\* read that raises.
PolledContents(serial_port) == PortContents

\* The port lists of length n, devices numbered in enumeration order.
RECURSIVE PortLists(_)
PortLists(n) ==
    IF n = 0 THEN {<<>>}
    ELSE {Append(ports, SerialPort(n, opens)) :
              ports \in PortLists(n - 1), opens \in BOOLEAN}

\* find's record of one port of its loop.
Trying(serial_port) ==
    [device |-> serial_port.device, polls |-> 0,
     state |-> IF serial_port.opens THEN "polling" ELSE "open_failed"]

\* Fault variant of find_poll: an exception of get_position is not caught.
find_poll_uncaught(trying, position) ==
    IF position.out.exc # "none"
    THEN [trying EXCEPT !.polls = @ + 1, !.state = "escaped"]
    ELSE IF position.out.val # None
    THEN [trying EXCEPT !.polls = @ + 1, !.state = "found"]
    ELSE IF trying.polls + 1 = FIND_POLLS
    THEN [trying EXCEPT !.polls = @ + 1, !.state = "exhausted"]
    ELSE [trying EXCEPT !.polls = @ + 1]

\* One pass of `for _ in range(10)` in which get_position gave `position`:
\* an exception ends the port (except Exception: continue), a position ends
\* find, None goes on to the next pass while there is one.
find_poll(trying, position) ==
    IF position.out.exc # "none"
    THEN [trying EXCEPT !.polls = @ + 1, !.state = "raised"]
    ELSE IF position.out.val # None
    THEN [trying EXCEPT !.polls = @ + 1, !.state = "found"]
    ELSE IF trying.polls + 1 = FIND_POLLS
    THEN [trying EXCEPT !.polls = @ + 1, !.state = "exhausted"]
    ELSE [trying EXCEPT !.polls = @ + 1]

\* find is at work: called and not yet returned or raised.
Finding == answer.fn = "find" /\ answer.out = NoResult

\* The port whose turn is over, if any.
PortGivenUp ==
    IF answer.path = <<>> THEN TRUE
    ELSE answer.path[Len(answer.path)].state \in {"open_failed", "raised", "exhausted"}

FinderInit ==
    /\ NoSession
    /\ \E n \in 0..MaxPorts : \E ports \in PortLists(n) : probe = [ports |-> ports]
    /\ answer = NoAnswer

\* find is called: ports = list(comports()).
FindCalled ==
    /\ answer.fn = "none"
    /\ answer' = [fn |-> "find", out |-> NoResult, path |-> <<>>]
    /\ UNCHANGED <<probe, session_vars>>

\* The next port of the loop: Turntable(port=port.device, ...).
FindOpensPort ==
    /\ Finding
    /\ PortGivenUp
    /\ Len(answer.path) < Len(probe.ports)
    /\ answer' = [answer EXCEPT
                     !.path = Append(@, Trying(probe.ports[Len(answer.path) + 1]))]
    /\ UNCHANGED <<probe, session_vars>>

\* One pass of the polling loop on the open port.
FindPolls ==
    /\ Finding
    /\ answer.path # <<>>
    /\ answer.path[Len(answer.path)].state = "polling"
    /\ \E p \in PolledContents(probe.ports[Len(answer.path)]) :
          LET k == Len(answer.path)
              position == get_position(Turntable(0), p, now)
              trying == find_poll(answer.path[k], position)
          IN  answer' = [answer EXCEPT
                            !.path[k] = trying,
                            !.out = IF trying.state = "found"
                                    THEN Ok([port |-> trying.device,
                                             self |-> position.self])
                                    ELSE IF trying.state = "escaped"
                                    THEN position.out
                                    ELSE @]
    /\ UNCHANGED <<probe, session_vars>>

\* The loop over the ports has ended: raise TurntableError.
FindFails ==
    /\ Finding
    /\ PortGivenUp
    /\ Len(answer.path) = Len(probe.ports)
    /\ answer' = [answer EXCEPT !.out = Raise("TurntableError")]
    /\ UNCHANGED <<probe, session_vars>>

FinderNext ==
    \/ FindCalled
    \/ FindOpensPort
    \/ FindPolls
    \/ FindFails

\* find runs on: no pass of its loops blocks (attempt_read reads only bytes
\* that are waiting, the sleep between polls ends).
FinderSpec == FinderInit /\ [][FinderNext]_vars /\ WF_vars(FinderNext)

(* ---------------------------------------------------------------------- *)
(* Coordinate: the constructors' floating-point arithmetic                 *)
(* ---------------------------------------------------------------------- *)
(* Python's float is a binary floating-point number: 53 significant bits,  *)
(* every sum and difference rounded to the nearest representable value,    *)
(* ties to the even one.  Here the same arithmetic is carried out with     *)
(* FloatBits significant bits on integers (one unit is the smallest step   *)
(* between two of the angles looked at), so that the rounding shows on     *)
(* small numbers.                                                          *)
FloatBits == 4

\* The largest magnitude of an angle passed to a constructor.
MaxFloat == 20

RECURSIVE Pow2(_)
Pow2(n) == IF n = 0 THEN 1 ELSE 2 * Pow2(n - 1)

\* The unit in the last place at magnitude x: the spacing of the
\* representable values around x.
RECURSIVE ulp_from(_, _)
ulp_from(x, u) == IF Abs(x) < Pow2(FloatBits) * u THEN u ELSE ulp_from(x, 2 * u)
ulp(x) == ulp_from(x, 1)

\* x rounded to the nearest representable value, ties to even.
fl(x) ==
    LET u == ulp(x)
        q == x \div u              \* floor
        r == x % u
    IN  IF 2 * r < u THEN q * u
        ELSE IF 2 * r > u THEN (q + 1) * u
        ELSE IF q % 2 = 0 THEN q * u
        ELSE (q + 1) * u

\* The float operators + and -.
float_add(a, b) == fl(a + b)
float_sub(a, b) == fl(a - b)

\* The floats of magnitude up to MaxFloat.
Floats == {fl(x) : x \in -MaxFloat..MaxFloat}

\* Coordinate.from_turntable; `antenna` is the pair that
\* _turntable_to_antenna returns.
Coordinate_from_turntable(azimuth, elevation, neutral_elevation, antenna) ==
    [ antenna_azimuth |-> antenna[1],
      antenna_elevation |-> antenna[2],
      turntable_azimuth |-> azimuth,
      turntable_elevation |-> elevation,
      absolute_turntable_azimuth |-> azimuth,
      absolute_turntable_elevation |-> float_add(elevation, neutral_elevation),
      neutral_elevation |-> neutral_elevation,
      kind |-> "turntable" ]

\* Fault variant of Coordinate.from_absolute_turntable: the neutral
\* elevation is added where it is to be taken off.
Coordinate_from_absolute_turntable_added(azimuth, elevation, neutral_elevation, antenna) ==
    [ antenna_azimuth |-> antenna[1],
      antenna_elevation |-> antenna[2],
      turntable_azimuth |-> azimuth,
      turntable_elevation |-> float_add(elevation, neutral_elevation),
      absolute_turntable_azimuth |-> azimuth,
      absolute_turntable_elevation |-> elevation,
      neutral_elevation |-> neutral_elevation,
      kind |-> "absolute_turntable" ]

\* Coordinate.from_absolute_turntable; `antenna` is the pair that
\* _turntable_to_antenna returns.
Coordinate_from_absolute_turntable(azimuth, elevation, neutral_elevation, antenna) ==
    [ antenna_azimuth |-> antenna[1],
      antenna_elevation |-> antenna[2],
      turntable_azimuth |-> azimuth,
      turntable_elevation |-> float_sub(elevation, neutral_elevation),
      absolute_turntable_azimuth |-> azimuth,
      absolute_turntable_elevation |-> elevation,
      neutral_elevation |-> neutral_elevation,
      kind |-> "absolute_turntable" ]

\* Coordinate.from_antenna; `turntable` is the pair that
\* _antenna_to_turntable returns.
Coordinate_from_antenna(azimuth, elevation, neutral_elevation, turntable) ==
    [ antenna_azimuth |-> azimuth,
      antenna_elevation |-> elevation,
      turntable_azimuth |-> turntable[1],
      turntable_elevation |-> turntable[2],
      absolute_turntable_azimuth |-> turntable[1],
      absolute_turntable_elevation |-> float_add(turntable[2], neutral_elevation),
      neutral_elevation |-> neutral_elevation,
      kind |-> "antenna" ]

\* The properties Coordinate.azimuth and Coordinate.elevation.
Coordinate_azimuth(self) ==
    IF self.kind = "antenna" THEN self.antenna_azimuth
    ELSE IF self.kind = "turntable" THEN self.turntable_azimuth
    ELSE self.absolute_turntable_azimuth

Coordinate_elevation(self) ==
    IF self.kind = "antenna" THEN self.antenna_elevation
    ELSE IF self.kind = "turntable" THEN self.turntable_elevation
    ELSE self.absolute_turntable_elevation

\* The constructors, and the pairs the trigonometric conversion may return.
Constructors == {"from_turntable", "from_absolute_turntable", "from_antenna"}
ConvertedPairs == {<<fl(a), fl(e)>> : a \in {-3, 9}, e \in {-MaxFloat, -7, 0, 10, 13}}

CoordinateInit ==
    /\ NoSession
    /\ \E fn \in Constructors, azimuth \in {0, 5}, elevation \in Floats,
          neutral_elevation \in Floats, converted \in ConvertedPairs :
          probe = [fn |-> fn, azimuth |-> azimuth, elevation |-> elevation,
                   neutral_elevation |-> neutral_elevation, converted |-> converted]
    /\ answer = NoAnswer

\* Coordinate.<probe.fn>(azimuth=..., elevation=..., neutral_elevation=...)
ApplyConstructor ==
    /\ answer.fn = "none"
    /\ answer' =
          [fn |-> probe.fn,
           out |-> Ok(IF probe.fn = "from_turntable"
                      THEN Coordinate_from_turntable(probe.azimuth, probe.elevation,
                               probe.neutral_elevation, probe.converted)
                      ELSE IF probe.fn = "from_absolute_turntable"
                      THEN Coordinate_from_absolute_turntable(probe.azimuth, probe.elevation,
                               probe.neutral_elevation, probe.converted)
                      ELSE Coordinate_from_antenna(probe.azimuth, probe.elevation,
                               probe.neutral_elevation, probe.converted)),
           path |-> <<>>]
    /\ UNCHANGED <<probe, session_vars>>

CoordinateNext == ApplyConstructor

CoordinateSpec == CoordinateInit /\ [][CoordinateNext]_vars

\* A session in which the caller also sends the table, past the regimes,
\* to a waypoint and elsewhere, and then crosses a regime boundary.
StrayTargets == {<<0, -250000>>, <<2000000, 500004>>}
StrayElevations == {400000, -600004}

StrayNext ==
    \/ \E e \in StrayElevations : MoveTo(0, e)
    \/ StartingPosition
    \/ Arrival
    \/ Waypoint
    \/ SetConfirmation
    \/ SendSetCommand(0, 0)
    \/ \E p \in StrayTargets : SendEmergencyMoveCommand(p[1], p[2])
    \/ SerialReadRaises
    \/ CallerResumes
    \/ HwMoves
    \/ Tick

StraySpec == Init /\ [][StrayNext]_vars

(* ---------------------------------------------------------------------- *)
(* Experiment.run and Experiment._run_cuts_experiment                      *)
(* ---------------------------------------------------------------------- *)
\* Points of the cuts.
MaxPoints == 2

\* Where the points of the cuts send the table (50 is beyond the bounds).
CutAzimuths == {0}
CutElevations == {200000, 500000}

\* The keyword parameters of Turntable.move_to; it takes no others.
move_to_parameters == {"azimuth", "elevation", "azimuth_margin", "elevation_margin", "delay"}

\* The keywords of the call in the `finally` clause:
\* move_to(azimuth=0, elevation=0, move_timeout=120).
reset_keywords == {"azimuth", "elevation", "move_timeout"}

\* Python binds the keywords of a call to the parameters before the body
\* runs: a keyword that names no parameter raises TypeError.
bind_keywords(keywords, parameters) ==
    IF keywords \subseteq parameters THEN Ok(None) ELSE Raise("TypeError")

\* The experiment: its stage, the points done, and the exception or
\* interruption that ended the sweep ("none": it ran to its end).
Experiment(stage, points, failure) ==
    [fn |-> "_run_cuts_experiment", stage |-> stage, points |-> points,
     failure |-> failure]

\* The experiment takes the outcome of its call and goes to `stage`.
ExperimentAt(stage, points, failure) ==
    /\ probe' = Experiment(stage, points, failure)
    /\ pc' = "idle"
    /\ call' = NoCall
    /\ result' = NoResult
    /\ entry' = tt
    /\ sent' = <<>>
    /\ tx' = <<>>
    /\ port' = NoPort
    /\ UNCHANGED <<tt, now, next_regime, within_regime_elevation, hw, calls, faults,
                   answer>>

\* Experiment.run has found the table and is about to centre it.
ExperimentInit ==
    /\ tt = Turntable(0)
    /\ now = 0
    /\ pc = "idle"
    /\ call = NoCall
    /\ next_regime = None
    /\ within_regime_elevation = 0
    /\ result = NoResult
    /\ entry = tt
    /\ sent = <<>>
    /\ tx = <<>>
    /\ calls = 0
    /\ faults = 0
    /\ \E p \in PowerOnPositions :
          hw = [azimuth |-> p[1], elevation |-> p[2], target |-> None, zero |-> None]
    /\ probe = Experiment("centering", 0, "none")
    /\ answer = NoAnswer
    /\ port = NoPort

\* interactively_center: the user declares the position the table stands at
\* to be (0, 0).
Centers ==
    /\ probe.stage = "centering"
    /\ SendSetCommand(0, 0)

\* The table is centred and the user has agreed to the cuts: the sweep begins.
SweepBegins ==
    /\ probe.stage = "centering"
    /\ pc = "returned"
    /\ result.exc = "none"
    /\ ExperimentAt("sweep", 0, "none")

\* _run_experiment_at_point: the move to the next point of the cut.
MovesToPoint ==
    /\ probe.stage = "sweep"
    /\ probe.points < MaxPoints
    /\ \E a \in CutAzimuths, e \in CutElevations : MoveTo(a, e)

\* move_to has returned: the point is read next.
PointReached ==
    /\ probe.stage = "sweep"
    /\ pc = "returned"
    /\ result.exc = "none"
    /\ ExperimentAt("measure", probe.points, "none")

\* _run_experiment_at_point: wait_for_position.
ReadsPoint ==
    /\ probe.stage = "measure"
    /\ WaitForPosition

\* The point is measured and the loop goes on.
PointDone ==
    /\ probe.stage = "measure"
    /\ pc = "returned"
    /\ result.exc = "none"
    /\ ExperimentAt("sweep", probe.points + 1, "none")

\* `except Exception`: a call of the sweep has raised; the error is logged
\* and raised again, which runs the `finally` clause.
SweepFails ==
    /\ probe.stage \in {"sweep", "measure"}
    /\ pc = "returned"
    /\ result.exc # "none"
    /\ ExperimentAt("finally", probe.points, result.exc)

\* `except KeyboardInterrupt`: the user interrupts the sweep, wherever it
\* is; the interruption is logged, and the `finally` clause runs.
SweepInterrupted ==
    /\ probe.stage \in {"sweep", "measure"}
    /\ ExperimentAt("finally", probe.points, "KeyboardInterrupt")

\* The last point of the last cut is done.
SweepFinishes ==
    /\ probe.stage = "sweep"
    /\ pc = "idle"
    /\ probe.points >= 1
    /\ ExperimentAt("finally", probe.points, "none")

\* `finally`: self.turntable.move_to(azimuth=0, elevation=0, move_timeout=120).
FinallyResets ==
    /\ probe.stage = "finally"
    /\ IF bind_keywords(reset_keywords, move_to_parameters).exc = "none"
       THEN MoveTo(0, 0)
       ELSE /\ pc = "idle"
            /\ call' = [op |-> "move_to", azimuth |-> 0, elevation |-> 0]
            /\ pc' = "returned"
            /\ result' = bind_keywords(reset_keywords, move_to_parameters)
            /\ entry' = tt
            /\ sent' = <<>>
            /\ tx' = <<>>
            /\ UNCHANGED <<tt, now, next_regime, within_regime_elevation, hw, calls,
                           faults, probe, answer, port>>

\* What leaves _run_cuts_experiment once the `finally` clause is over: the
\* exception of the clause itself, else the exception raised again by
\* `except Exception`, else nothing.
Propagated(failure, reset) ==
    IF reset.exc # "none" THEN Raise(reset.exc)
    ELSE IF failure \in {"none", "KeyboardInterrupt"} THEN Ok(None)
    ELSE Raise(failure)

\* The experiment is left; `path` holds the frames the `finally` clause
\* has written.
ExperimentLeft ==
    /\ probe.stage = "finally"
    /\ pc = "returned"
    /\ probe' = Experiment("left", probe.points, probe.failure)
    /\ answer' = [fn |-> "_run_cuts_experiment",
                  out |-> Propagated(probe.failure, result),
                  path |-> sent]
    /\ UNCHANGED <<tt, now, pc, call, next_regime, within_regime_elevation, result,
                   entry, sent, tx, hw, calls, faults, port>>

ExperimentNext ==
    \/ Centers
    \/ SetConfirmation
    \/ SweepBegins
    \/ MovesToPoint
    \/ StartingPosition
    \/ Arrival
    \/ Waypoint
    \/ PointReached
    \/ ReadsPoint
    \/ PositionArrives
    \/ PointDone
    \/ SweepFails
    \/ SweepInterrupted
    \/ SweepFinishes
    \/ FinallyResets
    \/ ExperimentLeft
    \/ SerialReadRaises
    \/ HwMoves
    \/ Tick

ExperimentSpec == ExperimentInit /\ [][ExperimentNext]_vars

(* ---------------------------------------------------------------------- *)
(* Turntable._convert_to_regime_elevation and its inverse, in floating     *)
(* point                                                                   *)
(* ---------------------------------------------------------------------- *)
\* Fault variant of convert_to_regime_elevation_float: an offset that is not
\* set counts as 0.
convert_to_regime_elevation_defaulting(self, elevation) ==
    IF self.regime_elevation_offset = None THEN Ok(elevation)
    ELSE Ok(float_sub(elevation, self.regime_elevation_offset[1]))

\* _convert_to_regime_elevation on floats.
convert_to_regime_elevation_float(self, elevation) ==
    IF self.regime_elevation_offset = None THEN Raise("RuntimeError")
    ELSE Ok(float_sub(elevation, self.regime_elevation_offset[1]))

\* _convert_from_regime_elevation on floats.
convert_from_regime_elevation_float(self, elevation) ==
    IF self.regime_elevation_offset = None THEN Raise("RuntimeError")
    ELSE Ok(float_add(elevation, self.regime_elevation_offset[1]))

Conversions == {"_convert_to_regime_elevation", "_convert_from_regime_elevation"}

Converted(fn, self, elevation) ==
    IF fn = "_convert_to_regime_elevation"
    THEN convert_to_regime_elevation_float(self, elevation)
    ELSE convert_from_regime_elevation_float(self, elevation)

OtherConversion(fn) == CHOOSE other \in Conversions : other # fn

\* A conversion is applied to an elevation on a Turntable with any offset,
\* set or not; then the other conversion is applied to what it returned.
ConversionInit ==
    /\ NoSession
    /\ \E fn \in Conversions, elevation \in Floats,
          offset \in {None} \cup {Some(o) : o \in Floats} :
          probe = [fn |-> fn, elevation |-> elevation,
                   self |-> [Turntable(0) EXCEPT !.regime_elevation_offset = offset]]
    /\ answer = NoAnswer

ConvertElevation ==
    /\ answer.fn = "none"
    /\ answer' = [fn |-> probe.fn,
                  out |-> Converted(probe.fn, probe.self, probe.elevation),
                  path |-> <<>>]
    /\ UNCHANGED <<probe, session_vars>>

ConvertBack ==
    /\ answer.fn \in Conversions
    /\ answer.out.exc = "none"
    /\ answer.path = <<>>
    /\ answer' = [answer EXCEPT
                     !.path = <<Converted(OtherConversion(probe.fn), probe.self,
                                          answer.out.val)>>]
    /\ UNCHANGED <<probe, session_vars>>

ConversionNext == ConvertElevation \/ ConvertBack

ConversionSpec == ConversionInit /\ [][ConversionNext]_vars

(* ---------------------------------------------------------------------- *)
(* Properties                                                              *)
(* ---------------------------------------------------------------------- *)
\* The catalog regime centred at `center`, as the value of current_regime.
RegimeAt(center) == Some(TurnTableElevationRegime(center))

\* The session fields of `a` and `b` are the same.
SameSession(a, b) ==
    /\ a.has_been_set = b.has_been_set
    /\ a.current_regime = b.current_regime
    /\ a.regime_elevation_offset = b.regime_elevation_offset

\* The azimuth or the absolute elevation of a request is out of bounds.
OutsideAbsoluteBounds(self, azimuth, elevation) ==
    \/ ~InBounds(ABSOLUTE_AZIMUTH_BOUNDS, azimuth)
    \/ ~InBounds(ABSOLUTE_ELEVATION_BOUNDS, elevation + self.neutral_elevation)

\* `elevation` lies in the window of the current regime of `self`.
InsideRegime(self, elevation) ==
    /\ self.current_regime # None
    /\ Abs(elevation - self.current_regime[1].center_angle)
           <= self.current_regime[1].allowable_offset

\* A move_to for a position that is valid in the current regime of `self`
\* is validated at time t, more than DEAD_TIME after the last telemetry.
ValidationFindsStale(self, t, azimuth, elevation) ==
    /\ self.has_been_set
    /\ self.regime_elevation_offset # None
    /\ InsideRegime(self, elevation)
    /\ LET within == elevation - self.regime_elevation_offset[1]
       IN  /\ validate_absolute_bounds(self, azimuth, within, None).val
           /\ validate_elevation_regime_bounds(self, within).val
    /\ time_since_last_communication_exceeds(self, t, DEAD_TIME)

\* C1 (as the specification states it): once a SET has been confirmed, a
\* move_to whose azimuth is outside [-180, 180] or whose absolute elevation
\* (elevation + neutral_elevation) is outside [-90, 45] is rejected and
\* writes no frame at all, also when the elevation is outside the current
\* regime.
C1_OutOfBoundsMoveWritesNothing ==
    ( /\ call.op = "move_to"
      /\ entry.has_been_set
      /\ OutsideAbsoluteBounds(entry, call.azimuth, call.elevation) )
    => /\ sent = <<>>
       /\ pc = "returned"
       /\ result.exc # "none"

\* C1: the state that refutes it: an out-of-bounds move_to has been rejected
\* with ValueError after it wrote the MOV and SET frames of a regime change.
C1_RejectedAfterFrames ==
    /\ call.op = "move_to"
    /\ entry.has_been_set
    /\ OutsideAbsoluteBounds(entry, call.azimuth, call.elevation)
    /\ pc = "returned"
    /\ result.exc = "ValueError"
    /\ \E i \in DOMAIN sent : sent[i].kind = "MOV"
    /\ \E i \in DOMAIN sent : sent[i].kind = "SET"

\* C2: every CMD:MOV frame that move_to writes satisfies, when it is
\* written: azimuth in [-180, 180]; within-regime elevation in [-29.5, 29.5];
\* elevation + regime_elevation_offset + neutral_elevation in [-90, 45];
\* has_been_set; and at most DEAD_TIME since the last parsed telemetry.
C2_MoveFramesAreValidated ==
    \A i \in DOMAIN tx :
        (tx[i].kind = "MOV" /\ tx[i].by = "move_to") =>
            /\ InBounds(ABSOLUTE_AZIMUTH_BOUNDS, tx[i].azimuth)
            /\ InBounds(REGIME_ELEVATION_BOUNDS, tx[i].elevation)
            /\ tt.regime_elevation_offset # None
            /\ InBounds(ABSOLUTE_ELEVATION_BOUNDS,
                        tx[i].elevation + tt.regime_elevation_offset[1]
                            + tt.neutral_elevation)
            /\ tt.has_been_set
            /\ ~time_since_last_communication_exceeds(tt, now, DEAD_TIME)

\* C2: move_to has just written MOV frames in a regime with a nonzero
\* offset, on a controller with a nonzero neutral elevation.
C2_MoveFramesWritten ==
    /\ tx # <<>>
    /\ tx[1].kind = "MOV"
    /\ tx[1].by = "move_to"
    /\ tt.regime_elevation_offset # None
    /\ tt.regime_elevation_offset # Some(0)
    /\ tt.neutral_elevation # 0

\* C3: while no SET has been confirmed (has_been_set false, current_regime
\* unset) every move_to fails with an error, writes no frame and leaves
\* has_been_set, current_regime and regime_elevation_offset as they were.
C3_UnzeroedMoveFails ==
    ( /\ call.op = "move_to"
      /\ ~entry.has_been_set
      /\ entry.current_regime = None )
    => /\ pc = "returned"
       /\ result.exc # "none"
       /\ sent = <<>>
       /\ SameSession(tt, entry)

\* C3: a move_to on an unzeroed controller has failed with RuntimeError.
C3_UnzeroedMoveHasFailed ==
    /\ call.op = "move_to"
    /\ ~entry.has_been_set
    /\ entry.current_regime = None
    /\ pc = "returned"
    /\ result.exc = "RuntimeError"

\* C4: when send_set_command(0, 0), called with the regime recomputation
\* enabled, returns confirmed (by a reading within the tolerance of (0, 0),
\* the reading (0.00, 0.00) among them), has_been_set is true and
\* current_regime is the catalog regime centred at 0.
C4_ConfirmedSetZeroes ==
    ( /\ call.op = "send_set_command"
      /\ call.azimuth = 0
      /\ call.elevation = 0
      /\ pc = "returned"
      /\ result.exc = "none" )
    => /\ tt.has_been_set
       /\ tt.current_regime = RegimeAt(0)

\* C4: send_set_command(0, 0) has returned on the reading (0.00, 0.00).
C4_SetConfirmedAtZero ==
    /\ call.op = "send_set_command"
    /\ call.azimuth = 0
    /\ call.elevation = 0
    /\ pc = "returned"
    /\ result.exc = "none"
    /\ Telemetry = AzEl(0, 0)
    /\ hw.target = None
    /\ tt.has_been_set

\* The tolerance C5 names, 0.11 degree.
ConfirmationTolerance == 11 * 100

\* C5: has_been_set becomes true only in the confirmation loop of a SET,
\* after a CMD:SET frame has been written and on a parsed reading whose
\* azimuth and elevation are both within 0.11 degree of (0, 0); and
\* current_regime is unset as long as has_been_set is false.
C5_FlagOnlyByConfirmedSet ==
    [][ /\ (tt'.has_been_set /\ ~tt.has_been_set) =>
              /\ pc = "set_loop"
              /\ \E i \in DOMAIN sent : sent[i].kind = "SET"
              /\ Abs(Telemetry.azimuth) <= ConfirmationTolerance
              /\ Abs(Telemetry.elevation) <= ConfirmationTolerance
        /\ (tt'.current_regime # None => tt'.has_been_set) ]_vars

\* C5: the first confirmation of a session has just taken place.
C5_FirstConfirmation ==
    /\ call.op = "send_set_command"
    /\ pc = "returned"
    /\ ~entry.has_been_set
    /\ entry.current_regime = None
    /\ tt.has_been_set
    /\ tt.current_regime # None

\* C6 (as the specification states it): when the validation of a move finds
\* more than DEAD_TIME elapsed since the last parsed telemetry, has_been_set
\* and current_regime become unset (so that every later move_to is rejected
\* until a new SET(0, 0) is confirmed).
C6_StaleValidationUnsetsSession ==
    ( /\ call.op = "move_to"
      /\ pc = "returned"
      /\ ValidationFindsStale(entry, now, call.azimuth, call.elevation) )
    => /\ ~tt.has_been_set
       /\ tt.current_regime = None

\* C6: the state that refutes it: the move has been rejected for staleness
\* and the controller is still zeroed, in the regime it was in.
C6_SessionSurvivesStaleRejection ==
    /\ call.op = "move_to"
    /\ pc = "returned"
    /\ result.exc = "ValueError"
    /\ ValidationFindsStale(entry, now, call.azimuth, call.elevation)
    /\ tt.has_been_set
    /\ tt.current_regime = entry.current_regime

\* C7: a move_to that is called more than DEAD_TIME after the last parsed
\* telemetry is rejected with an error and writes no CMD:MOV frame.
C7_StaleMoveRejected ==
    ( /\ call.op = "move_to"
      /\ time_since_last_communication_exceeds(entry, now, DEAD_TIME) )
    => /\ pc = "returned"
       /\ result.exc # "none"
       /\ \A i \in DOMAIN sent : sent[i].kind # "MOV"

\* C7: an otherwise valid move_to has been rejected because the last
\* telemetry was too old.
C7_StaleMoveHasBeenRejected ==
    /\ call.op = "move_to"
    /\ ValidationFindsStale(entry, now, call.azimuth, call.elevation)
    /\ pc = "returned"
    /\ result.exc = "ValueError"
    /\ sent = <<>>

\* C8: when move_to returns normally, the reading it returns has its azimuth
\* within azimuth_margin of the commanded azimuth and its elevation, once
\* regime_elevation_offset is added, within elevation_margin of the commanded
\* elevation (the margins are move_to's defaults).
C8_ReturnedReadingNearTarget ==
    ( /\ call.op = "move_to"
      /\ pc = "returned"
      /\ result.exc = "none" )
    => /\ Abs(result.val.azimuth - call.azimuth) <= ALLOWABLE_DISCREPANCY_DEG
       /\ Abs(result.val.elevation + tt.regime_elevation_offset[1] - call.elevation)
              <= ALLOWABLE_DISCREPANCY_DEG

\* C8: a move_to that changed regime has returned a reading whose
\* elevation differs from the commanded one by the regime offset.
C8_ReturnedAcrossRegimes ==
    /\ call.op = "move_to"
    /\ pc = "returned"
    /\ result.exc = "none"
    /\ tt.current_regime # entry.current_regime
    /\ tt.regime_elevation_offset # Some(0)
    /\ Abs(result.val.elevation - call.elevation) > ALLOWABLE_DISCREPANCY_DEG

\* A move_to(elevation = 40) called on a controller zeroed in the regime
\* centred at 0, with offset 0, has returned normally.
MoveTo40FromRegime0Returned ==
    /\ call.op = "move_to"
    /\ call.elevation = 400000
    /\ entry.has_been_set
    /\ entry.current_regime = RegimeAt(0)
    /\ entry.regime_elevation_offset = Some(0)
    /\ pc = "returned"
    /\ result.exc = "none"

\* C9 (as the specification states it): a move_to(elevation = 40) that
\* starts zeroed in the regime centred at 0 with offset 0 and returns
\* normally ends with current_regime the catalog regime centred at 50.
C9_EndsInRegime50 ==
    MoveTo40FromRegime0Returned => tt.current_regime = RegimeAt(500000)

\* C9 (amended): a move_to(elevation = 40) that starts zeroed in the regime
\* centred at 0 with offset 0 and returns normally ends with current_regime
\* the catalog regime centred at 25, the first regime on the way up whose
\* window contains 40.
C9_EndsInRegime25 ==
    MoveTo40FromRegime0Returned => tt.current_regime = RegimeAt(250000)

\* C9: such a move_to has returned, after the SET of one regime change.
C9_MoveTo40Returned ==
    /\ MoveTo40FromRegime0Returned
    /\ \E i \in DOMAIN sent : sent[i].kind = "SET"
    /\ tt.current_regime = RegimeAt(250000)

\* C10: a move_to whose elevation lies inside current_regime changes no
\* regime: it writes no frame other than CMD:MOV frames for the requested
\* target, and current_regime, regime_elevation_offset and has_been_set stay
\* as they were when it was called.
C10_NoTransitionInsideRegime ==
    ( /\ call.op = "move_to"
      /\ InsideRegime(entry, call.elevation) )
    => /\ SameSession(tt, entry)
       /\ \A i \in DOMAIN sent :
             /\ sent[i].kind = "MOV"
             /\ sent[i].azimuth = Format3(call.azimuth)
             /\ sent[i].elevation
                    = Format3(call.elevation - entry.regime_elevation_offset[1])

\* C10: move_to(azimuth = 10, elevation = 20), called zeroed in the regime
\* centred at 0, has written its frames and returned.
C10_MoveInsideRegimeReturned ==
    /\ call = [op |-> "move_to", azimuth |-> 100000, elevation |-> 200000]
    /\ entry.has_been_set
    /\ entry.current_regime = RegimeAt(0)
    /\ pc = "returned"
    /\ result.exc = "none"
    /\ sent # <<>>

C12_EmergencyCommandsBypassChecks ==
    /\ call.op = "send_emergency_move_command" =>
          /\ pc = "returned"
          /\ result.exc = "none"
          /\ Len(sent) = EMERGENCY_REPS
          /\ \A i \in DOMAIN sent :
                sent[i] = Frame("MOV", Format3(call.azimuth), Format3(call.elevation),
                                "send_emergency_move_command")
          /\ tt = entry
    /\ call.op = "send_stop_command" =>
          /\ pc = "returned"
          /\ result.exc = "none"
          /\ Len(sent) = STOP_REPEAT
          /\ \A i \in DOMAIN sent : sent[i].kind = "STOP"
          /\ tt = entry

\* C12: an emergency move to an out-of-bounds target has been written on a
\* controller that was never zeroed and has never heard the table.
C12_EmergencyMoveOnUnzeroedController ==
    /\ call.op = "send_emergency_move_command"
    /\ ~InBounds(ABSOLUTE_AZIMUTH_BOUNDS, call.azimuth)
    /\ ~InBounds(ABSOLUTE_ELEVATION_BOUNDS, call.elevation)
    /\ ~entry.has_been_set
    /\ entry.current_regime = None
    /\ entry.most_recent_communication_time = None
    /\ Len(sent) = EMERGENCY_REPS
    /\ hw.target = Some(AzEl(Format3(call.azimuth), Format3(call.elevation)))

\* The last CMD:MOV frame among `frames` (there is one).
LastMoveFrame(frames) ==
    frames[CHOOSE i \in DOMAIN frames :
              /\ frames[i].kind = "MOV"
              /\ \A j \in DOMAIN frames : frames[j].kind = "MOV" => j <= i]

\* C13, first half: the last CMD:MOV frame of a move_to that returns
\* normally carries the commanded azimuth and the commanded elevation less
\* regime_elevation_offset, as format .3f prints them.
C13_AcceptedMoveEncodesTarget ==
    ( /\ call.op = "move_to"
      /\ pc = "returned"
      /\ result.exc = "none" )
    => /\ \E i \in DOMAIN sent : sent[i].kind = "MOV"
       /\ LastMoveFrame(sent).azimuth = Format3(call.azimuth)
       /\ LastMoveFrame(sent).elevation
              = Format3(call.elevation - tt.regime_elevation_offset[1])

\* C13, second half: a move_to whose target is outside the absolute bounds
\* fails, and writes no CMD:MOV frame (which could only be for another
\* target).
C13_InvalidMoveSendsNoOtherTarget ==
    ( /\ call.op = "move_to"
      /\ OutsideAbsoluteBounds(entry, call.azimuth, call.elevation) )
    => /\ \A i \in DOMAIN sent : sent[i].kind # "MOV"
       /\ pc = "returned" => result.exc # "none"

\* C13 (as the specification states it): a requested move is never
\* coerced: an accepted move_to ends with the CMD:MOV frame of the commanded
\* azimuth and of (commanded elevation - regime_elevation_offset), and a
\* move_to whose target fails validation fails instead of sending a frame
\* for a nearby valid target.
C13_MoveNeverCoerced ==
    /\ C13_AcceptedMoveEncodesTarget
    /\ C13_InvalidMoveSendsNoOtherTarget

\* C13: the state that refutes it: a move_to to an elevation outside the
\* absolute bounds has failed after it sent the table to the centre of the
\* next regime, 25 degrees away from where it was.
C13_MovedToWaypointThenFailed ==
    /\ call.op = "move_to"
    /\ OutsideAbsoluteBounds(entry, call.azimuth, call.elevation)
    /\ pc = "returned"
    /\ result.exc = "ValueError"
    /\ \E i \in DOMAIN sent :
          /\ sent[i].kind = "MOV"
          /\ sent[i].elevation = 250000
    /\ tt.current_regime # entry.current_regime

\* The catalog as the specification describes it: seven regimes centred
\* every 25 degrees from -75 to 75, each with a window of 29 degrees.
CatalogCentres == {-750000, -500000, -250000, 0, 250000, 500000, 750000}
CatalogWindow == 29 * 10000
InWindow(centre, angle) == Abs(angle - centre) <= CatalogWindow

\* Position in the catalog of the regime with the centre of `regime`.
CatalogIndex(regime) ==
    CHOOSE i \in DOMAIN elevation_regimes :
        elevation_regimes[i].center_angle = regime.center_angle

\* C14: find_best_regime(angle) returns a catalog regime whose centre is
\* at the least distance from angle, and it raises exactly when angle is
\* outside every window [centre - 29, centre + 29] of the catalog.
C14_FindBestRegimeIsClosest ==
    answer.fn = "find_best_regime" =>
        IF \E c \in CatalogCentres : InWindow(c, probe.angle)
        THEN /\ answer.out.exc = "none"
             /\ answer.out.val.center_angle \in CatalogCentres
             /\ \A c \in CatalogCentres :
                   Abs(probe.angle - answer.out.val.center_angle)
                       <= Abs(probe.angle - c)
        ELSE answer.out.exc = "ValueError"

\* C14: find_best_regime(13.0001) has answered the regime centred at 25.
C14_FindBestRegimeAnswered ==
    /\ answer.fn = "find_best_regime"
    /\ probe.angle = 130001
    /\ answer.out.exc = "none"
    /\ answer.out.val.center_angle = 250000

\* C15: for every angle in [-90, 45] find_best_regime succeeds and answers
\* a catalog regime whose window contains the angle.
C15_NoCoverageGap ==
    ( /\ answer.fn = "find_best_regime"
      /\ -900000 <= probe.angle
      /\ probe.angle <= 450000 )
    => /\ answer.out.exc = "none"
       /\ answer.out.val.center_angle \in CatalogCentres
       /\ InWindow(answer.out.val.center_angle, probe.angle)

\* C15: find_best_regime(-90) has answered the regime centred at -75.
C15_LowestAngleCovered ==
    /\ answer.fn = "find_best_regime"
    /\ probe.angle = -900000
    /\ answer.out.exc = "none"
    /\ answer.out.val.center_angle = -750000

\* C16: from any catalog regime and for any destination in [-90, 45], the
\* chain current = find_next_regime(destination, current) never fails,
\* never comes back to a regime it has left, and has reached a regime
\* whose window contains the destination after at most len(catalog)
\* applications.
C16_TraversalTerminates ==
    ( /\ answer.fn = "find_next_regime"
      /\ -900000 <= probe.angle
      /\ probe.angle <= 450000 )
    => /\ answer.out.exc = "none"
       /\ \A i, j \in DOMAIN answer.path :
             i # j => answer.path[i].center_angle # answer.path[j].center_angle
       /\ \A i \in DOMAIN answer.path :
             answer.path[i].center_angle = answer.out.val.center_angle
                 => /\ i = Len(answer.path)
                    /\ InWindow(answer.out.val.center_angle, probe.angle)
       /\ Len(answer.path) <= Len(elevation_regimes)
       /\ Len(answer.path) = Len(elevation_regimes)
              => InWindow(answer.out.val.center_angle, probe.angle)

\* C16: the longest chain, from the regime centred at 75 to the
\* destination -90, has reached the regime centred at -75.
C16_LongestChainDone ==
    /\ answer.fn = "find_next_regime"
    /\ probe.angle = -900000
    /\ probe.regime = Some(TurnTableElevationRegime(750000))
    /\ Len(answer.path) = 6
    /\ answer.out.exc = "none"
    /\ answer.out.val.center_angle = -750000

\* C17 (as the specification states it): for every catalog regime
\* `current` and every destination, find_next_regime answers `current` if
\* the destination is in its window, and otherwise the catalog entry next
\* to it: index + 1 if the destination is above the centre of `current`,
\* index - 1 if it is below.
C17_NextRegimeIsAdjacent ==
    answer.fn = "find_next_regime" =>
        LET current == answer.path[Len(answer.path)]
        IN  IF InWindow(current.center_angle, probe.angle)
            THEN /\ answer.out.exc = "none"
                 /\ answer.out.val = current
            ELSE /\ answer.out.exc = "none"
                 /\ CatalogIndex(answer.out.val)
                        = CatalogIndex(current)
                            + (IF probe.angle > current.center_angle THEN 1 ELSE -1)

\* C17: the state that refutes it: for a destination below the window of
\* the first regime (centred at -75), find_next_regime has answered the
\* last regime of the catalog (centred at 75).
C17_WrappedToLastRegime ==
    /\ answer.fn = "find_next_regime"
    /\ answer.path = <<TurnTableElevationRegime(-750000)>>
    /\ probe.angle < -1040000
    /\ answer.out.exc = "none"
    /\ answer.out.val.center_angle = 750000

\* The buffer holds a well-formed telemetry frame.
HasFrame(data) == \E i \in DOMAIN data : data[i].piece = "frame"

\* The reading of the last well-formed frame of the buffer.
LastFrameReading(data) ==
    LET i == CHOOSE i \in DOMAIN data :
                 /\ data[i].piece = "frame"
                 /\ \A j \in DOMAIN data : data[j].piece = "frame" => j <= i
    IN  [azimuth |-> data[i].text[2] * 100, elevation |-> data[i].text[1] * 100]

\* C18 (as the specification states it): for a buffer with at least one
\* well-formed frame among arbitrary garbage (garbage on the line of a frame
\* and lost line breaks between frames included), parse_az_el returns the
\* azimuth and elevation of the last well-formed frame of the buffer.
C18_LastFrameWins ==
    ( /\ answer.fn = "parse_az_el"
      /\ HasFrame(probe.data) )
    => /\ answer.out.exc = "none"
       /\ answer.out.val = LastFrameReading(probe.data)

\* C18: the state that refutes it: of two frames on one line (the line
\* break between them lost) parse_az_el has returned the first.
C18_FirstFrameOfLineReturned ==
    /\ answer.fn = "parse_az_el"
    /\ probe.data = <<FramePiece(100, 200), FramePiece(-300, 400)>>
    /\ answer.out.exc = "none"
    /\ answer.out.val = [azimuth |-> 20000, elevation |-> 10000]

\* C19: for a buffer without a well-formed frame (empty, truncated frames,
\* bytes that are not ASCII, fields with too many digits) parse_az_el
\* returns None and does not raise.
C19_NoFrameNoData ==
    ( /\ answer.fn = "parse_az_el"
      /\ ~HasFrame(probe.data) )
    => /\ answer.out.exc = "none"
       /\ answer.out.val = None

\* C19: parse_az_el has returned None for a buffer with a truncated frame
\* followed by a byte that is not ASCII, and junk on the next line.
C19_GarbageParsedToNone ==
    /\ answer.fn = "parse_az_el"
    /\ probe.data = <<OtherPiece("broken"), OtherPiece("high"),
                      OtherPiece("newline"), OtherPiece("junk")>>
    /\ answer.out.exc = "none"
    /\ answer.out.val = None

\* get_position has returned.
GetPositionReturned == pc = "returned" /\ call.op = "get_position"

\* The Coordinate that get_position owes for the reading `raw`: turntable
\* kind, the raw azimuth, and the raw elevation plus the regime offset (the
\* raw elevation when the session has no regime).
IsPositionFor(value, raw) ==
    /\ value # None
    /\ value.kind = "turntable"
    /\ value.turntable_azimuth = raw.azimuth
    /\ value.turntable_elevation =
           IF tt.regime_elevation_offset # None
           THEN raw.elevation + tt.regime_elevation_offset[1]
           ELSE raw.elevation
    /\ tt.current_regime = None => value.turntable_elevation = raw.elevation

\* C20, the part about the value: when get_position's read of the port has
\* handed bytes over (at least MIN_IN_WAITING were waiting and the read did
\* not raise), it returns None if no frame can be parsed from them and
\* otherwise the Coordinate for the frame.
C20_PositionOfBytesRead ==
    ( /\ GetPositionReturned
      /\ ~port.raises
      /\ port.in_waiting >= MIN_IN_WAITING )
    => /\ result.exc = "none"
       /\ IF parse_az_el(port.data).val = None
          THEN result.val = None
          ELSE IsPositionFor(result.val, parse_az_el(port.data).val)

\* C20, the part about the session: get_position changes no session state
\* other than the last-contact time.
C20_GetPositionKeepsSession ==
    GetPositionReturned
    => /\ SameSession(tt, entry)
       /\ tt.neutral_elevation = entry.neutral_elevation

\* C20: get_position returns None when no telemetry frame can be parsed from
\* the bytes currently available; otherwise it returns a turntable-kind
\* Coordinate whose azimuth is the raw reported azimuth and whose turntable
\* elevation is the raw elevation plus regime_elevation_offset when the
\* offset is known (the raw elevation when the session has no regime); and
\* it changes no session state other than the last-contact time.
C20_GetPositionNoneOrCoordinate ==
    GetPositionReturned
    => /\ result.exc = "none"
       /\ IF parse_az_el(port.data).val = None
          THEN result.val = None
          ELSE IsPositionFor(result.val, parse_az_el(port.data).val)
       /\ SameSession(tt, entry)
       /\ tt.neutral_elevation = entry.neutral_elevation

\* C20: get_position's read of the serial port has raised, and get_position
\* has raised UnboundLocalError instead of returning None.
C20_GetPositionRaised ==
    /\ GetPositionReturned
    /\ port.raises
    /\ result.exc = "UnboundLocalError"

\* get_position has returned None although the port held a whole frame.
C20_WaitingFrameNotReported ==
    /\ GetPositionReturned
    /\ parse_az_el(port.data).val # None
    /\ result = Ok(None)

\* get_position has returned a Coordinate with a nonzero regime offset applied.
C20_OffsetApplied ==
    /\ GetPositionReturned
    /\ result.exc = "none"
    /\ result.val # None
    /\ tt.regime_elevation_offset \notin {None, Some(0)}
    /\ result.val.turntable_elevation # parse_az_el(port.data).val.elevation

\* C21, the part about too little data: with fewer than MIN_IN_WAITING bytes
\* waiting and a read that does not raise, get_position returns None.
C21_TooLittleDataIsNone ==
    ( /\ GetPositionReturned
      /\ ~port.raises
      /\ port.in_waiting < MIN_IN_WAITING )
    => result = Ok(None)

\* C21: attempt_read, and therefore get_position, returns None rather than
\* raising whenever the serial port has too little data or the serial read
\* itself raises an exception.
C21_ReadFailureIsNone ==
    ( /\ GetPositionReturned
      /\ \/ port.raises
         \/ port.in_waiting < MIN_IN_WAITING )
    => result = Ok(None)

\* C21: the serial read of a get_position has raised and an exception has
\* left get_position.
C21_ReadFaultEscaped ==
    /\ GetPositionReturned
    /\ port.raises
    /\ attempt_read(port).exc # "none"
    /\ result.exc = attempt_read(port).exc

\* The ports find has gone through, and what it has answered.
FindTried == answer.path
FindGaveUp(trying) == trying.state \in {"open_failed", "raised", "exhausted"}

\* C22, at every moment of a find: the ports are tried in enumeration order,
\* no port is polled more than FIND_POLLS times, every port before the one
\* at hand was given up (it did not open, its read raised, or FIND_POLLS
\* polls parsed nothing); a controller is returned only for the port whose
\* poll parsed a reading, and it is bound to that port; the only exception
\* find raises is TurntableError, and only after every port was given up.
C22_FindOutcome ==
    answer.fn = "find" =>
        /\ Len(FindTried) <= Len(probe.ports)
        /\ \A i \in DOMAIN FindTried :
              /\ FindTried[i].device = probe.ports[i].device
              /\ FindTried[i].polls <= FIND_POLLS
              /\ FindTried[i].state = "exhausted" => FindTried[i].polls = FIND_POLLS
              /\ FindTried[i].state = "open_failed" =>
                    FindTried[i].polls = 0 /\ ~probe.ports[i].opens
              /\ i < Len(FindTried) => FindGaveUp(FindTried[i])
        /\ IF answer.out.exc # "none"
           THEN /\ answer.out.exc = "TurntableError"
                /\ Len(FindTried) = Len(probe.ports)
                /\ \A i \in DOMAIN FindTried : FindGaveUp(FindTried[i])
           ELSE (answer.out.val # None) =
                    (FindTried # <<>> /\ FindTried[Len(FindTried)].state = "found")
        /\ ( answer.out.exc = "none" /\ answer.out.val # None ) =>
              /\ answer.out.val.port = FindTried[Len(FindTried)].device
              /\ answer.out.val.self.most_recent_communication_time # None
              /\ probe.ports[Len(FindTried)].opens

\* find has returned or raised.
FindDone == answer.fn = "find" /\ answer.out # NoResult

\* C22: find tries the ports in enumeration order, polls each opened port at
\* most 10 times, returns a controller bound to the first port that yields a
\* parsed telemetry reading, raises TurntableError when no port does
\* (including when opening a port fails), and for a finite port list it
\* always terminates.
C22_FindFirstResponsivePort == [] C22_FindOutcome /\ <> FindDone

\* C22: find has returned the controller of the second port after ten polls
\* of the first port parsed nothing.
C22_SecondPortFound ==
    /\ FindDone
    /\ Len(FindTried) = 2
    /\ FindTried[1].state = "exhausted"
    /\ FindTried[1].polls = FIND_POLLS
    /\ answer.out.exc = "none"
    /\ answer.out.val.port = 2

\* find has raised TurntableError after a port that did not open and a port
\* whose read raised.
C22_NoPortFound ==
    /\ FindDone
    /\ Len(FindTried) = 2
    /\ FindTried[1].state = "open_failed"
    /\ FindTried[2].state = "raised"
    /\ answer.out.exc = "TurntableError"

\* A Coordinate has been built.
CoordinateBuilt == answer.fn \in Constructors

\* The difference absolute_turntable_elevation - turntable_elevation, as
\* Python computes it.
ElevationDifference(self) ==
    float_sub(self.absolute_turntable_elevation, self.turntable_elevation)

\* The one sum or difference the constructor computes is exact.
ConstructorArithmeticExact(self) ==
    IF self.kind = "absolute_turntable"
    THEN self.turntable_elevation = self.absolute_turntable_elevation - self.neutral_elevation
    ELSE self.absolute_turntable_elevation = self.turntable_elevation + self.neutral_elevation

\* The azimuths agree and the authoritative pair is the pair passed.
C23_PairKept ==
    CoordinateBuilt =>
        /\ answer.out.val.absolute_turntable_azimuth = answer.out.val.turntable_azimuth
        /\ Coordinate_azimuth(answer.out.val) = probe.azimuth
        /\ Coordinate_elevation(answer.out.val) = probe.elevation
        /\ answer.out.val.neutral_elevation = probe.neutral_elevation

\* C23 as stated: for every Coordinate built by from_turntable,
\* from_absolute_turntable or from_antenna and every neutral_elevation,
\* absolute_turntable_elevation - turntable_elevation equals
\* neutral_elevation, absolute_turntable_azimuth equals turntable_azimuth,
\* and the pair reported by azimuth/elevation is exactly the pair passed.
C23_AdditiveExactly ==
    CoordinateBuilt =>
        /\ ElevationDifference(answer.out.val) = probe.neutral_elevation
        /\ answer.out.val.absolute_turntable_azimuth = answer.out.val.turntable_azimuth
        /\ Coordinate_azimuth(answer.out.val) = probe.azimuth
        /\ Coordinate_elevation(answer.out.val) = probe.elevation

\* C23 as amended: the difference equals neutral_elevation when the
\* constructor's one sum or difference is exact, and else is within one unit
\* in the last place of the larger of the two elevations; the azimuths agree
\* and the pair reported by azimuth/elevation is exactly the pair passed.
C23_AdditiveWithinRounding ==
    CoordinateBuilt =>
        LET self == answer.out.val
            larger == IF Abs(self.absolute_turntable_elevation) > Abs(self.turntable_elevation)
                      THEN self.absolute_turntable_elevation
                      ELSE self.turntable_elevation
        IN  /\ ConstructorArithmeticExact(self)
                  => ElevationDifference(self) = probe.neutral_elevation
            /\ Abs(ElevationDifference(self) - probe.neutral_elevation) <= ulp(larger)
            /\ self.absolute_turntable_azimuth = self.turntable_azimuth
            /\ Coordinate_azimuth(self) = probe.azimuth
            /\ Coordinate_elevation(self) = probe.elevation

\* C23: from_turntable has built a Coordinate whose sum was rounded, and the
\* difference of its elevations is not its neutral elevation.
C23_RoundedSum ==
    /\ answer.fn = "from_turntable"
    /\ ~ConstructorArithmeticExact(answer.out.val)
    /\ ElevationDifference(answer.out.val) # probe.neutral_elevation
    /\ probe.neutral_elevation # 0

\* A CMD:SET frame has been written since move_to was called.
SetWritten == \E i \in DOMAIN sent : sent[i].kind = "SET"

\* The newest telemetry confirms a SET at the commanded azimuth.
SetConfirmed ==
    /\ Abs(Telemetry.azimuth - call.azimuth) <= ALLOWABLE_DISCREPANCY_DEG
    /\ Abs(Telemetry.elevation) <= ALLOWABLE_DISCREPANCY_DEG

\* A step of move_to advances current_regime.
RegimeAdvances == call.op = "move_to" /\ tt'.current_regime # tt.current_regime

\* C26, for a commanded azimuth of 0: current_regime advances only in the
\* step that reads the confirmation of the CMD:SET written at the waypoint.
C26_ZeroAzimuthHopRehomes ==
    [][ (RegimeAdvances /\ call.azimuth = 0)
            => (pc = "set_loop" /\ SetWritten /\ SetConfirmed) ]_vars

\* C26: in every regime transition performed by move_to, for every commanded
\* azimuth within [-180, 180], a CMD:SET frame is written at the waypoint and
\* confirmed by telemetry before current_regime is advanced to next_regime;
\* current_regime never advances past a waypoint at which the hardware was
\* not re-homed.
C26_RegimeAdvancesAfterRehoming ==
    [][ RegimeAdvances => (pc = "set_loop" /\ SetWritten /\ SetConfirmed) ]_vars

\* C26: a move_to with a nonzero azimuth has advanced current_regime with no
\* CMD:SET written and the raw elevation counter still at the waypoint.
C26_AdvancedWithoutSet ==
    /\ call.op = "move_to"
    /\ call.azimuth # 0
    /\ entry.current_regime # None
    /\ tt.current_regime # entry.current_regime
    /\ ~SetWritten
    /\ Abs(hw.elevation) > ALLOWABLE_DISCREPANCY_DEG

\* move_to has returned normally on a table whose position is followed.
MoveToReturnedOnTable ==
    /\ call.op = "move_to"
    /\ pc = "returned"
    /\ result.exc = "none"
    /\ hw.zero # None

\* The table's elevation measured from the position of the last user-issued
\* zeroing: the raw counter plus everything the CMD:SET frames of move_to
\* have taken out of it.
PhysicalElevation == hw.elevation + hw.zero[1]

\* The step in which move_to returns normally.
MoveToReturns ==
    /\ pc # "returned"
    /\ pc' = "returned"
    /\ call.op = "move_to"
    /\ result'.exc = "none"
    /\ hw.zero # None

\* C27: at the return of any move_to that returns normally (any azimuth,
\* with or without regime crossings), the raw elevation counter plus
\* regime_elevation_offset is the table's elevation measured from the
\* position of the last user-issued zeroing, to within the elevation margin,
\* and so that elevation is within the elevation margin of the commanded
\* elevation (twice the margin here: once for the reading, once for the sum).
C27_OffsetTracksTable ==
    [][ MoveToReturns
        => /\ Abs(hw'.elevation + tt'.regime_elevation_offset[1] - PhysicalElevation')
                  <= ALLOWABLE_DISCREPANCY_DEG
           /\ Abs(PhysicalElevation' - call.elevation)
                  <= 2 * ALLOWABLE_DISCREPANCY_DEG ]_vars

\* C27: a move_to with a nonzero azimuth has returned normally after a
\* regime crossing with the table a whole regime away from the commanded
\* elevation.
C27_ReturnedARegimeAway ==
    /\ MoveToReturnedOnTable
    /\ call.azimuth # 0
    /\ tt.current_regime # entry.current_regime
    /\ Abs(PhysicalElevation - call.elevation) >= 20 * 10000

\* A user-issued send_set_command(0, 0) has returned confirmed.
UserSetConfirmed ==
    /\ call.op = "send_set_command"
    /\ call.azimuth = 0
    /\ call.elevation = 0
    /\ pc = "returned"
    /\ result.exc = "none"
    /\ result.val # None

\* C28: when a user-issued send_set_command(0, 0) returns confirmed, from any
\* prior session state (after regime crossings included),
\* regime_elevation_offset is 0 and the elevation get_position reports for
\* the confirming telemetry is within ALLOWABLE_DISCREPANCY_DEG of 0.
C28_UserSetClearsOffset ==
    [][ (pc = "set_loop" /\ UserSetConfirmed')
        => /\ tt'.regime_elevation_offset = Some(0)
           /\ Abs(position_of(tt', Telemetry).val.turntable_elevation)
                  <= ALLOWABLE_DISCREPANCY_DEG ]_vars

\* C28: a send_set_command(0, 0) called after a regime crossing has returned
\* confirmed with the offset of the crossing still in place.
C28_OffsetSurvivesUserSet ==
    /\ UserSetConfirmed
    /\ entry.regime_elevation_offset \notin {None, Some(0)}
    /\ tt.regime_elevation_offset = entry.regime_elevation_offset
    /\ tt.current_regime = RegimeAt(0)
    /\ Abs(position_of(tt, Telemetry).val.turntable_elevation)
           > 20 * 10000

\* A step of move_to starts a move: to a waypoint if next_regime' is set,
\* to the destination otherwise.
MoveStarts ==
    /\ pc # "wait_for_position"
    /\ pc' = "wait_for_position"
    /\ call'.op = "move_to"

\* The regime the chain of find_next_regime names after `regime`, on the
\* way to `destination`: its catalog neighbour on the destination's side.
NeighbourToward(regime, destination) ==
    elevation_regimes[IF destination > regime.center_angle
                      THEN CatalogIndex(regime) + 1
                      ELSE CatalogIndex(regime) - 1]

\* The CMD:MOV frames of move_to written by this step.
MoveFramesWritten == tx' # <<>> /\ tx'[1].kind = "MOV" /\ tx'[1].by = "move_to"

\* C29: a move_to that must cross regime boundaries follows the chain of
\* repeated find_next_regime. A move to a waypoint starts only while the
\* destination is outside current_regime, and the waypoint is the centre of
\* the catalog neighbour of current_regime on the destination's side;
\* current_regime changes only to the regime whose centre was the waypoint;
\* the move to the destination starts only with the destination inside
\* current_regime; and every CMD:MOV frame encodes the waypoint while the
\* loop is running and the destination once it has ended.
C29_HopsFollowRegimeChain ==
    [][ /\ (MoveStarts /\ next_regime' # None)
            => /\ ~contains(tt'.current_regime[1], call'.elevation)
               /\ CatalogIndex(tt'.current_regime[1]) + 1 \in DOMAIN elevation_regimes
                     \/ call'.elevation < tt'.current_regime[1].center_angle
               /\ CatalogIndex(tt'.current_regime[1]) - 1 \in DOMAIN elevation_regimes
                     \/ call'.elevation > tt'.current_regime[1].center_angle
               /\ next_regime'[1] = NeighbourToward(tt'.current_regime[1], call'.elevation)
               /\ within_regime_elevation'
                     = convert_to_regime_elevation(tt', next_regime'[1].center_angle).val
        /\ (MoveStarts /\ next_regime' = None)
            => /\ contains(tt'.current_regime[1], call'.elevation)
               /\ within_regime_elevation'
                     = convert_to_regime_elevation(tt', call'.elevation).val
        /\ (call.op = "move_to" /\ tt'.current_regime # tt.current_regime)
            => /\ next_regime # None
               /\ tt'.current_regime = next_regime
        /\ (call.op = "move_to" /\ MoveFramesWritten)
            => LET target == IF next_regime = None THEN call.elevation
                             ELSE next_regime[1].center_angle
               IN  /\ next_regime = None => contains(tt'.current_regime[1], call.elevation)
                   /\ tx'[1].azimuth = Format3(call.azimuth)
                   /\ tx'[1].elevation
                         = Format3(convert_to_regime_elevation(tt', target).val) ]_vars

\* C29: a move_to has crossed two regime boundaries, one waypoint after the
\* other, and has written the CMD:MOV frames for its destination.
C29_TwoHopsThenDestination ==
    /\ call.op = "move_to"
    /\ pc = "arrival_loop"
    /\ next_regime = None
    /\ entry.current_regime = RegimeAt(0)
    /\ tt.current_regime = RegimeAt(-500000)
    /\ Len(SelectSeq(sent, LAMBDA f : f.kind = "MOV")) = 3 * MOVE_REPS
    /\ tx # <<>>

\* move_to has been rejected by validation: it has raised ValueError.
MoveToRejected ==
    /\ call.op = "move_to"
    /\ pc = "returned"
    /\ result.exc = "ValueError"

\* C30: when a move_to is rejected by validation, current_regime,
\* regime_elevation_offset and has_been_set have the values they had when
\* move_to was called.
C30_RejectedMoveKeepsSession ==
    MoveToRejected
    => /\ tt.current_regime = entry.current_regime
       /\ tt.regime_elevation_offset = entry.regime_elevation_offset
       /\ tt.has_been_set = entry.has_been_set

\* C30: a move_to called in the regime centred at 0 with offset 0 has been
\* rejected by validation and has left the session in the regime centred
\* at 25 with the offset of the crossing.
C30_RejectedInAnotherRegime ==
    /\ MoveToRejected
    /\ entry.current_regime = RegimeAt(0)
    /\ entry.regime_elevation_offset = Some(0)
    /\ tt.current_regime = RegimeAt(250000)
    /\ tt.regime_elevation_offset \notin {None, Some(0)}
    /\ tt.has_been_set

\* C31: for every pair of adjacent catalog regimes, in both directions, the
\* centre of one lies inside the other's allowable window; and so, whenever
\* a move_to has its destination outside current_regime, the waypoint that
\* find_next_regime names is inside current_regime: the assertion of
\* _move_to_next_regime on the waypoint does not fail.
C31_WaypointInsideCurrentRegime ==
    /\ \A i \in 1..(Len(elevation_regimes) - 1) :
          /\ contains(elevation_regimes[i], elevation_regimes[i + 1].center_angle)
          /\ contains(elevation_regimes[i + 1], elevation_regimes[i].center_angle)
    /\ ( /\ call.op = "move_to"
         /\ tt.current_regime # None
         /\ ~contains(tt.current_regime[1], call.elevation) )
       => LET next == find_next_regime(call.elevation, tt.current_regime[1])
          IN  IF next.exc # "none" THEN FALSE
              ELSE contains(tt.current_regime[1], next.val.center_angle)

\* C31: a move_to called in the lowest regime of the catalog with a
\* destination below its window has failed with AssertionError before
\* writing a frame.
C31_WaypointAssertionFailed ==
    /\ call.op = "move_to"
    /\ pc = "returned"
    /\ result.exc = "AssertionError"
    /\ sent = <<>>
    /\ entry.current_regime = RegimeAt(-750000)
    /\ tt = entry
    /\ find_next_regime(call.elevation, tt.current_regime[1]).val.center_angle = 750000

\* The step of _move_to_next_regime that reads the position at the waypoint
\* and checks it, in a move_to whose destination is inside [-90, 45].
WaypointChecked ==
    /\ pc = "waypoint_read"
    /\ pc' # "waypoint_read"
    /\ call.op = "move_to"
    /\ InBounds(ABSOLUTE_ELEVATION_BOUNDS, call.elevation)

ReadAtWaypoint ==
    Abs(Telemetry.elevation - within_regime_elevation) <= ALLOWABLE_DISCREPANCY_DEG

InRangeMoveReturned ==
    /\ call.op = "move_to"
    /\ pc = "returned"
    /\ entry.has_been_set
    /\ entry.current_regime # None
    /\ InBounds(ABSOLUTE_AZIMUTH_BOUNDS, call.azimuth)
    /\ InBounds(ABSOLUTE_ELEVATION_BOUNDS, call.elevation + tt.neutral_elevation)

\* C34: from any session state reached by confirmed send_set_command(0, 0)
\* calls and normally returning move_to calls, a move_to to an azimuth in
\* [-180, 180] and an elevation whose absolute elevation is in [-90, 45] is
\* accepted: it returns normally, with no ValueError of the validation and
\* no AssertionError.
C34_InRangeMoveAccepted ==
    InRangeMoveReturned => result.exc = "none"

\* C34: after a zeroing, a move into the regime centred at 25 and a second
\* zeroing, a move_to to elevation -10 has been rejected with ValueError
\* before writing a frame: the offset of the crossing is still in place.
C34_InRangeMoveRejected ==
    /\ InRangeMoveReturned
    /\ result.exc = "ValueError"
    /\ sent = <<>>
    /\ call.elevation = -100000
    /\ entry.current_regime = RegimeAt(0)
    /\ contains(entry.current_regime[1], call.elevation)
    /\ Abs(entry.regime_elevation_offset[1] - 250000) <= ALLOWABLE_DISCREPANCY_DEG

\* C35: in every reachable state, if current_regime is set then
\* regime_elevation_offset is set and has_been_set is true; hence neither
\* get_position nor move_to, called with a regime set, fails with the
\* RuntimeError of an offset that is not set.
C35_RegimeSetMeansOffsetSet ==
    /\ tt.current_regime # None
           => (tt.regime_elevation_offset # None /\ tt.has_been_set)
    /\ ( /\ call.op \in {"get_position", "move_to"}
         /\ pc = "returned"
         /\ entry.current_regime # None )
       => result.exc # "RuntimeError"

\* C35: get_position has returned a position on a session whose regime and
\* offset were set by the first zeroing and changed by a regime crossing.
C35_PositionReadWithRegimeSet ==
    /\ GetPositionReturned
    /\ result.exc = "none"
    /\ result.val # None
    /\ entry.current_regime \notin {None, RegimeAt(0)}
    /\ entry.regime_elevation_offset \notin {None, Some(0)}
    /\ entry.has_been_set

\* A conversion has been applied, and the other one to its result.
ConvertedThereAndBack ==
    /\ answer.fn \in Conversions
    /\ answer.path # <<>>

\* The exact value of the conversion that was applied first.
ExactConversion ==
    IF probe.fn = "_convert_to_regime_elevation"
    THEN probe.elevation - probe.self.regime_elevation_offset[1]
    ELSE probe.elevation + probe.self.regime_elevation_offset[1]

\* Both conversions raise when regime_elevation_offset is not set: neither
\* takes the offset to be 0.
ConversionRaisesWhenUnset ==
    (answer.fn \in Conversions /\ probe.self.regime_elevation_offset = None)
        => answer.out = Raise("RuntimeError")

\* C36: _convert_to_regime_elevation(e) returns e - offset and
\* _convert_from_regime_elevation(r) returns r + offset, each is the inverse
\* of the other for any fixed offset, and both raise when
\* regime_elevation_offset is unset.
C36_ConversionsAreInverses ==
    /\ ConversionRaisesWhenUnset
    /\ (answer.fn \in Conversions /\ probe.self.regime_elevation_offset # None)
           => answer.out = Ok(ExactConversion)
    /\ ConvertedThereAndBack => answer.path[1] = Ok(probe.elevation)

\* C36 (amended): the conversions return e - offset and r + offset as
\* rounded by the floating-point subtraction and addition: exactly when the
\* exact value is a float, within half a unit in the last place otherwise.
\* Each is the inverse of the other up to that rounding: the round trip gives
\* the elevation back exactly when the first conversion was exact, and
\* within one unit in the last place of the larger of the elevation and the
\* converted elevation otherwise.  Both raise when the offset is unset.
C36_ConversionsInverseWithinRounding ==
    /\ ConversionRaisesWhenUnset
    /\ (answer.fn \in Conversions /\ probe.self.regime_elevation_offset # None)
           => /\ answer.out.exc = "none"
              /\ fl(ExactConversion) = ExactConversion
                    => answer.out.val = ExactConversion
              /\ 2 * Abs(answer.out.val - ExactConversion) <= ulp(ExactConversion)
    /\ ConvertedThereAndBack
           => LET larger == IF Abs(answer.out.val) > Abs(probe.elevation)
                            THEN answer.out.val ELSE probe.elevation
              IN  /\ answer.path[1].exc = "none"
                  /\ answer.out.val = ExactConversion
                        => answer.path[1].val = probe.elevation
                  /\ Abs(answer.path[1].val - probe.elevation) <= ulp(larger)

\* C36: an elevation has been converted to the regime's elevation and back,
\* the subtraction was rounded, and what came back is another elevation.
C36_RoundTripRounded ==
    /\ ConvertedThereAndBack
    /\ probe.fn = "_convert_to_regime_elevation"
    /\ answer.out.val # ExactConversion
    /\ answer.path[1].exc = "none"
    /\ answer.path[1].val # probe.elevation

\* C36: a conversion has raised RuntimeError on a Turntable whose offset is
\* not set.
C36_ConversionRaised ==
    /\ answer.fn \in Conversions
    /\ probe.self.regime_elevation_offset = None
    /\ answer.out.exc = "RuntimeError"

\* The polling loops of move_to, send_set_command and wait_for_position.
PollingLoops == {"wait_for_position", "arrival_loop", "waypoint_read", "set_loop",
                 "wait_position"}

\* move_to has been accepted and has not returned yet.
MoveToInProgress == call.op = "move_to" /\ pc \in PollingLoops

\* The regime transitions move_to has started since it was called: each
\* move, to a waypoint or to the destination, writes MOVE_REPS frames.
MovesWritten == Len(SelectSeq(sent, LAMBDA f : f.kind = "MOV")) \div MOVE_REPS

\* A polling loop is left only by a step that has parsed a telemetry frame:
\* no loop gives up on its own.
LoopsEndOnTelemetryOnly ==
    (pc \in PollingLoops /\ pc' # pc)
        => tt'.most_recent_communication_time = Some(now)

\* C37: on hardware that receives each command, moves to the commanded raw
\* target and keeps emitting well-formed telemetry, every accepted move_to
\* eventually returns, after at most Len(elevation_regimes) - 1 regime
\* transitions; and the polling loops of move_to, send_set_command and
\* wait_for_position have no exit but a telemetry frame, so that without
\* telemetry they never return.
C37_AcceptedMoveReturns ==
    /\ [] (call.op = "move_to" => MovesWritten <= Len(elevation_regimes))
    /\ [][LoopsEndOnTelemetryOnly]_vars
    /\ (MoveToInProgress ~> pc = "returned")

\* C37: a move_to has returned normally after three regime transitions.
C37_ReturnedAfterThreeTransitions ==
    /\ call.op = "move_to"
    /\ pc = "returned"
    /\ result.exc = "none"
    /\ MovesWritten = 4
    /\ entry.current_regime = RegimeAt(0)
    /\ tt.current_regime = RegimeAt(-750000)
    /\ faults = MaxFaults

\* The sweep has ended by an error or by the user's interruption, and the
\* experiment has been left.
SweepEndedBadly ==
    /\ probe.fn = "_run_cuts_experiment"
    /\ probe.stage = "left"
    /\ probe.failure # "none"

\* A frame that stops the table or sends it to the safe position (0, 0).
StopsOrMakesSafe(frame) ==
    \/ frame.kind = "STOP"
    \/ frame.kind = "MOV" /\ frame.azimuth = 0 /\ frame.elevation = 0

\* C38: whenever the sweep of the cuts experiment ends by an error or by the
\* user's interruption, a stop command or a move to the safe position has
\* been written to the table before the failure leaves the experiment.
C38_SafeCommandBeforeFailureLeaves ==
    SweepEndedBadly => \E i \in DOMAIN answer.path : StopsOrMakesSafe(answer.path[i])

\* C38, reached: the sweep ended badly, the experiment was left with the
\* TypeError of the `finally` clause, and no frame was written.
C38_LeftWithoutSafeCommand ==
    /\ SweepEndedBadly
    /\ probe.failure = "ValueError"
    /\ answer.out = Raise("TypeError")
    /\ answer.path = <<>>

====
